---- MODULE Spec2Model ----
(***************************************************************************)
(* Verification model of the whydiditfail action: the byte-safe log        *)
(* truncator, the relevance extractor, the retrying HTTP client, the       *)
(* run() pipeline, the log collectors, the git context and the cleanup of  *)
(* old comments.  Each part has its own specification; the variables of    *)
(* the other parts stay at their idle values.                              *)
(***************************************************************************)
EXTENDS Integers, Sequences, FiniteSets, TLC

VARIABLES
    tS,        \* truncate: the input string, a sequence of code points
    tMax,      \* truncate: maxBytes
    tPc,       \* truncate: "call" | "once" | "twice"
    tOut,      \* truncate: result of truncate(tS, tMax)
    tOut2,     \* truncate: result of truncate(tOut, tMax)
    tKept,     \* truncate: the bytes b.subarray(start) of the last cut, <<>> if none
    tWarnings, \* truncate: number of core.warning calls made so far
    fullLogs,      \* extractor: the input text, a sequence of atoms
    lines,         \* extractor: fullLogs.split("\n")
    i,             \* extractor: loop index, 0-based
    relevantLines, \* extractor: the lines selected so far, in emission order
    seenLines,     \* extractor: the set of line texts already selected
    inFailedStep,  \* extractor: scan mode
    errorContext,  \* extractor: countdown after an error inside a failed step
    ePc,           \* extractor: "idle" | "start" | "scan" | "done"
    eResult,       \* extractor: the returned text
    cPc,           \* client: "idle" | "start" | "fetch" | "sleep" | "respond" | "done"
    retryOptions,  \* client: fetchWithRetry's retryOptions
    attempt,       \* client: loop variable of fetchWithRetry
    lastError,     \* client: lastError of fetchWithRetry
    response,      \* client: the response of the latest fetch that resolved
    lastFetch,     \* client: how the latest fetch ended: "none" | "response" | "error"
    delayMs,       \* client: the delay handed to the latest sleep
    aborted,       \* client: controller.signal.aborted
    timerArmed,    \* client: the 60 s timeout is pending
    fetchCalls,    \* client: number of fetch calls made
    sleepCalls,    \* client: number of sleep calls made
    retryableFailures, \* client: number of fetches that failed retryably
    outcome,       \* client: how explainFailure settled
    rPc,           \* run: "idle" | "start" | "collect" | "validate" | "analyze" | "awaiting" | "post" | "done"
    useMultiJob,   \* run: the multi_job input
    failedJobs,    \* run: failedJobs.length
    payload,       \* run: the serialized payload
    validateCalls, \* run: number of validatePayloadSize calls
    analyzerRequests, \* run: number of explainFailure / analyzeWithPolling calls
    result,        \* run: the analysis result
    summaries,     \* run: the summaries posted
    runWarnings,   \* run: core.warning calls
    setFailedCalls, \* run: core.setFailed calls
    colPc,         \* collector: "idle" | "start" | "download" | "done" | "rejected"
    listing,       \* collector: jobs.jobs, the conclusion of each listed job
    colFailedJobs, \* collector: failedJobs, the ids of the failed jobs
    task,          \* collector: the state of each job's download
    jobLogs,       \* collector: the values of logPromises
    completionOrder, \* collector: the positions in the order the downloads ended
    colWarnings,   \* collector: core.warning calls
    combinedLogs,  \* collector: the sections of the returned text
    fPc,           \* fetch: "idle" | "start" | "download" | "done" | "rejected"
    logPathExists, \* fetch: WHYDIDITFAIL_LOG_PATH names an existing file
    hasToken,      \* fetch: a token is given or GITHUB_TOKEN is set
    maxLogBytes,   \* fetch: maxLogKb * 1024
    rawLog,        \* fetch: the text of the file or of the download
    jobList,       \* fetch: jobs.jobs, the name of each listed job
    currentJob,    \* fetch: the position of currentJob in the listing
    listCalls,     \* fetch: number of listJobsForWorkflowRun calls
    downloadCalls, \* fetch: number of downloadJobLogsForWorkflowRun calls
    fetchWarnings, \* fetch: core.warning calls
    fetchedLogs,   \* fetch: the text fetchJobLogsBestEffort resolved with
    gPc,           \* git context: "idle" | "start" | "api" | "done"
    hasBaseSha,    \* git context: getBaseShaFromEvent() returned a sha
    localResult,   \* git context: "none" | "context" | "null", what getGitContextLocal returned
    apiResult,     \* git context: "none" | "context" | "null", what getGitContextViaAPI returned
    rawDiff,       \* git context: the diff before truncate
    rawMessages,   \* git context: the commit messages before truncate
    gitContext,    \* git context: the context getGitContext returns
    gitWarnings,   \* git context: core.warning calls
    clPc,          \* cleanup: "idle" | "start" | "loop" | "done"
    clKind,        \* cleanup: "issue" for cleanupOldPRComments, "review" for cleanupOldReviewComments
    comments,      \* cleanup: the listed comments
    currentRunId,  \* cleanup: currentRunId
    botComments,   \* cleanup: the positions the filter kept
    clIndex,       \* cleanup: position of the loop in botComments
    deleted,       \* cleanup: the positions of the comments whose delete call resolved
    clWarnings     \* cleanup: core.warning calls

truncVars == <<tS, tMax, tPc, tOut, tOut2, tKept, tWarnings>>

extVars == <<fullLogs, lines, i, relevantLines, seenLines, inFailedStep,
             errorContext, ePc, eResult>>

clientVars == <<cPc, retryOptions, attempt, lastError, response, lastFetch,
                delayMs, aborted, timerArmed, fetchCalls, sleepCalls,
                retryableFailures, outcome>>

runVars == <<rPc, useMultiJob, failedJobs, payload, validateCalls,
             analyzerRequests, result, summaries, runWarnings, setFailedCalls>>

colVars == <<colPc, listing, colFailedJobs, task, jobLogs, completionOrder,
             colWarnings, combinedLogs>>

fetchVars == <<fPc, logPathExists, hasToken, maxLogBytes, rawLog, jobList,
               currentJob, listCalls, downloadCalls, fetchWarnings, fetchedLogs>>

gitVars == <<gPc, hasBaseSha, localResult, apiResult, rawDiff, rawMessages,
             gitContext, gitWarnings>>

cleanVars == <<clPc, clKind, comments, currentRunId, botComments, clIndex,
               deleted, clWarnings>>

vars == <<truncVars, extVars, clientVars, runVars, colVars, fetchVars, gitVars,
          cleanVars>>

\* What the actions of one part leave alone: the variables of the others.
truncOthers == <<extVars, clientVars, runVars, colVars, fetchVars, gitVars, cleanVars>>
extOthers == <<truncVars, clientVars, runVars, colVars, fetchVars, gitVars, cleanVars>>
clientOthers == <<truncVars, extVars, runVars, colVars, fetchVars, gitVars, cleanVars>>
runOthers == <<truncVars, extVars, colVars, fetchVars, gitVars, cleanVars>>
colOthers == <<truncVars, extVars, clientVars, runVars, fetchVars, gitVars, cleanVars>>
fetchOthers == <<truncVars, extVars, clientVars, runVars, colVars, gitVars,
                 cleanVars>>
gitOthers == <<truncVars, extVars, clientVars, runVars, colVars, fetchVars,
               cleanVars>>
cleanOthers == <<truncVars, extVars, clientVars, runVars, colVars, fetchVars,
                 gitVars>>

(***************************************************************************)
(* Bounds of the model.                                                    *)
(***************************************************************************)
MaxStrLen == 3
MaxBudget == 7
MaxSegs == 3
MaxSmallBody == 2
MaxFailedJobs == 2
MaxJobs == 3
MaxListed == 2
MaxOver == 2
MaxComments == 2

(***************************************************************************)
(* Strings.  A JavaScript string is modelled as a sequence of code points; *)
(* a lone surrogate (an ill-formed string) is the code point LoneSurrogate.*)
(***************************************************************************)
ReplacementChar == 65533
LoneSurrogate == 55296

\* "a", e-acute (2 bytes), U+4E16 (3 bytes), U+1F680 (4 bytes), U+FFFD itself,
\* and a lone high surrogate.
Chars == {97, 233, 19990, 128640, ReplacementChar, LoneSurrogate}

WellFormedChars == Chars \ {LoneSurrogate}

SeqsUpTo(S, n) == UNION {[1..k -> S] : k \in 0..n}

IsSurrogate(cp) == cp >= 55296 /\ cp <= 57343

\* Buffer.from(s, "utf8") for one code point: real UTF-8; a lone surrogate is
\* encoded as U+FFFD (EF BF BD).
EncodeChar(cp) ==
    IF cp < 128 THEN <<cp>>
    ELSE IF cp < 2048 THEN <<192 + (cp \div 64), 128 + (cp % 64)>>
    ELSE IF IsSurrogate(cp) THEN <<239, 191, 189>>
    ELSE IF cp < 65536
         THEN <<224 + (cp \div 4096), 128 + ((cp \div 64) % 64), 128 + (cp % 64)>>
    ELSE <<240 + (cp \div 262144), 128 + ((cp \div 4096) % 64),
           128 + ((cp \div 64) % 64), 128 + (cp % 64)>>

RECURSIVE Utf8Encode(_)
Utf8Encode(s) ==
    IF s = <<>> THEN <<>> ELSE EncodeChar(Head(s)) \o Utf8Encode(Tail(s))

\* (byte & 0b1100_0000) === 0b1000_0000
IsContinuation(byte) == (byte \div 64) = 2

\* Number of continuation bytes a lead byte announces; -1 for a byte that
\* cannot start a character.
Announced(b0) ==
    IF b0 < 128 THEN 0
    ELSE IF b0 >= 194 /\ b0 <= 223 THEN 1
    ELSE IF b0 >= 224 /\ b0 <= 239 THEN 2
    ELSE IF b0 >= 240 /\ b0 <= 244 THEN 3
    ELSE -1

\* How many of the `need` bytes after position p are continuation bytes,
\* counted from p+1 up to the first one that is not.
RECURSIVE ContRun(_, _, _)
ContRun(b, p, need) ==
    IF need = 0 \/ p + 1 > Len(b) \/ ~IsContinuation(b[p + 1]) THEN 0
    ELSE 1 + ContRun(b, p + 1, need - 1)

CodePointAt(b, p, need) ==
    IF need = 0 THEN b[p]
    ELSE IF need = 1 THEN (b[p] - 192) * 64 + (b[p + 1] - 128)
    ELSE IF need = 2
         THEN (b[p] - 224) * 4096 + (b[p + 1] - 128) * 64 + (b[p + 2] - 128)
    ELSE (b[p] - 240) * 262144 + (b[p + 1] - 128) * 4096
         + (b[p + 2] - 128) * 64 + (b[p + 3] - 128)

\* buf.toString("utf8"): every maximal ill-formed subsequence decodes to one
\* U+FFFD (a stray continuation byte, or a lead byte with too few
\* continuation bytes after it).
RECURSIVE DecodeFrom(_, _)
DecodeFrom(b, p) ==
    IF p > Len(b) THEN <<>>
    ELSE LET need == Announced(b[p]) IN
         IF need = -1 THEN <<ReplacementChar>> \o DecodeFrom(b, p + 1)
         ELSE LET k == ContRun(b, p, need) IN
              IF k = need
              THEN <<CodePointAt(b, p, need)>> \o DecodeFrom(b, p + need + 1)
              ELSE <<ReplacementChar>> \o DecodeFrom(b, p + k + 1)

Utf8Decode(b) == DecodeFrom(b, 1)

\* b.subarray(start): the bytes from 0-based offset start to the end.
Subarray(b, start) == SubSeq(b, start + 1, Len(b))

(***************************************************************************)
(* truncate(s, maxBytes)                                                   *)
(***************************************************************************)
\* while (start < b.length && (b[start] & 0xC0) === 0x80) start++
RECURSIVE SkipContinuation(_, _)
SkipContinuation(b, start) ==
    IF start < Len(b) /\ IsContinuation(b[start + 1])
    THEN SkipContinuation(b, start + 1)
    ELSE start

\* A cut that starts one byte too early.
CutStartOffByOne(b, maxBytes) == SkipContinuation(b, Len(b) - maxBytes - 1)

\* let start = b.length - maxBytes; while (...) start++
CutStart(b, maxBytes) == SkipContinuation(b, Len(b) - maxBytes)

\* The cut of the stale build: no adjustment to a character boundary.
KeptBytesNoAdjust(b, maxBytes) == Subarray(b, Len(b) - maxBytes)

\* A cut that keeps the head of the buffer instead of its tail.
KeptBytesHead(b, maxBytes) == SubSeq(b, 1, maxBytes)

\* b.subarray(start)
KeptBytes(b, maxBytes) == Subarray(b, CutStart(b, maxBytes))

truncate(s, maxBytes) ==
    LET b == Utf8Encode(s) IN
    IF Len(b) <= maxBytes THEN s
    ELSE Utf8Decode(KeptBytes(b, maxBytes))

\* A truncate that warns on every call.
truncateWarnsAlways(s, maxBytes) == TRUE

\* Whether truncate logs its "Logs truncated from ..." warning.
truncateWarns(s, maxBytes) == Len(Utf8Encode(s)) > maxBytes

TruncInit ==
    /\ tS \in SeqsUpTo(Chars, MaxStrLen)
    /\ tMax \in 0..MaxBudget
    /\ tPc = "call"
    /\ tOut = <<>>
    /\ tOut2 = <<>>
    /\ tKept = <<>>
    /\ tWarnings = 0

TruncIdle ==
    /\ tS = <<>>
    /\ tMax = 0
    /\ tPc = "idle"
    /\ tOut = <<>>
    /\ tOut2 = <<>>
    /\ tKept = <<>>
    /\ tWarnings = 0

\* truncate(tS, tMax)
TruncateCall ==
    /\ tPc = "call"
    /\ tOut' = truncate(tS, tMax)
    /\ tKept' = IF truncateWarns(tS, tMax)
                THEN KeptBytes(Utf8Encode(tS), tMax) ELSE tKept
    /\ tWarnings' = tWarnings + (IF truncateWarns(tS, tMax) THEN 1 ELSE 0)
    /\ tPc' = "once"
    /\ UNCHANGED <<tS, tMax, tOut2>>
    /\ UNCHANGED truncOthers

\* truncate(truncate(tS, tMax), tMax)
TruncateAgain ==
    /\ tPc = "once"
    /\ tOut2' = truncate(tOut, tMax)
    /\ tKept' = IF truncateWarns(tOut, tMax)
                THEN KeptBytes(Utf8Encode(tOut), tMax) ELSE tKept
    /\ tWarnings' = tWarnings + (IF truncateWarns(tOut, tMax) THEN 1 ELSE 0)
    /\ tPc' = "twice"
    /\ UNCHANGED <<tS, tMax, tOut>>
    /\ UNCHANGED truncOthers

(***************************************************************************)
(* Log text.  A text is a sequence of atoms: NL is the newline character,  *)
(* every other atom is a run of characters without a newline.  The atoms   *)
(* below are the ones the two classifiers look for; an atom >= PlainWord   *)
(* is ordinary text.                                                       *)
(***************************************************************************)
NL == 0
RunMarker == 1      \* "Run "
GroupMarker == 2    \* "##[group]"
ErrorToken == 3     \* "error:"
FailedToken == 4    \* "failed"
PlainWord == 10

\* fullLogs.split("\n"): the runs between newlines; a text without newline is
\* one line, the empty text is one empty line.  Computed by halves: the last
\* line of the left half and the first line of the right half are one line.
RECURSIVE Split(_)
Split(text) ==
    IF Len(text) = 0 THEN << <<>> >>
    ELSE IF Len(text) = 1
         THEN (IF text[1] = NL THEN << <<>>, <<>> >> ELSE <<text>>)
    ELSE LET h == Len(text) \div 2
             a == Split(SubSeq(text, 1, h))
             b == Split(SubSeq(text, h + 1, Len(text)))
         IN  SubSeq(a, 1, Len(a) - 1) \o <<a[Len(a)] \o b[1]>> \o Tail(b)

\* ls.join("\n"), computed by halves
RECURSIVE Join(_)
Join(ls) ==
    IF ls = <<>> THEN <<>>
    ELSE IF Len(ls) = 1 THEN ls[1]
    ELSE LET h == Len(ls) \div 2 IN
         Join(SubSeq(ls, 1, h)) \o <<NL>> \o Join(SubSeq(ls, h + 1, Len(ls)))

\* /^##\[group\]|^##\[endgroup\]|^Run |^Post |^Set up job|^Complete job/
isStepBoundary(line) ==
    line # <<>> /\ line[1] \in {RunMarker, GroupMarker}

\* errorPatterns.some(pattern => pattern.test(line)): unanchored patterns
containsErrorIndicator(line) ==
    \E k \in 1..Len(line) : line[k] \in {ErrorToken, FailedToken}

(***************************************************************************)
(* extractRelevantLogs: one loop iteration on the scan state               *)
(* st = [relevantLines, seenLines, inFailedStep, errorContext].            *)
(***************************************************************************)
LeadingContext == 10
WindowBefore == 10
WindowAfter == 30
ErrorContextLines == 30
FallbackLines == 100

Max(a, b) == IF a >= b THEN a ELSE b
Min(a, b) == IF a <= b THEN a ELSE b

\* A push that does not consult the seen-set.
PushAlways(st, line) ==
    [st EXCEPT !.relevantLines = Append(@, line)]

\* if (!seenLines.has(line)) { seenLines.add(line); relevantLines.push(line) }
PushUnseen(st, line) ==
    IF line \in st.seenLines THEN st
    ELSE [st EXCEPT !.seenLines = @ \cup {line},
                    !.relevantLines = Append(@, line)]

\* for (let j = from; j < to; j++) push lines[j] if unseen    (0-based j)
RECURSIVE PushRange(_, _, _, _)
PushRange(st, ls, from, to) ==
    IF from >= to THEN st
    ELSE PushRange(PushUnseen(st, ls[from + 1]), ls, from + 1, to)

\* if (errorContext > 0) errorContext--
Countdown(st) ==
    IF st.errorContext > 0 THEN [st EXCEPT !.errorContext = @ - 1] ELSE st

\* A scan that leaves the failed step at every step boundary.
LeaveStepAtAnyBoundary(st, line) ==
    IF isStepBoundary(line) /\ st.inFailedStep
    THEN [st EXCEPT !.inFailedStep = FALSE, !.errorContext = 0]
    ELSE st

\* if (isStepBoundary(line) && inFailedStep && errorContext > 0) leave the step
LeaveStep(st, line) ==
    IF isStepBoundary(line) /\ st.inFailedStep /\ st.errorContext > 0
    THEN [st EXCEPT !.inFailedStep = FALSE, !.errorContext = 0]
    ELSE st

\* A leading context that starts one line later.
LeadingStartShort(k) == Max(0, k - LeadingContext + 1)

\* Math.max(0, i - 10): the start of the leading context of a failed step
LeadingStart(k) == Max(0, k - LeadingContext)

\* An assignment that adds to the countdown.
AddContext(current) == current + ErrorContextLines

\* errorContext = 30
ResetContext(current) == ErrorContextLines

\* The window of a local error that ends before the line of the error.
ErrorWindowEndBefore(n, k) == Min(n, k)

\* Math.min(lines.length, i + 30): the exclusive end of the local window
ErrorWindowEnd(n, k) == Min(n, k + WindowAfter)

\* The body of the for loop for index k (0-based).
ScanStep(st, ls, k) ==
    LET line == ls[k + 1]
        s1 == LeaveStep(st, line)
    IN  IF isStepBoundary(line) /\ containsErrorIndicator(line)
        THEN \* enter the failed step, emit the boundary and its leading
             \* context, continue (no countdown)
             PushRange(PushUnseen([s1 EXCEPT !.inFailedStep = TRUE], line),
                       ls, LeadingStart(k), k)
        ELSE IF s1.inFailedStep
        THEN LET s2 == PushUnseen(s1, line)
                 s3 == IF containsErrorIndicator(line)
                       THEN [s2 EXCEPT !.errorContext = ResetContext(@)]
                       ELSE s2
             IN  Countdown(s3)
        ELSE IF containsErrorIndicator(line)
        THEN Countdown(PushRange(s1, ls, Max(0, k - WindowBefore),
                                 ErrorWindowEnd(Len(ls), k)))
        ELSE Countdown(s1)

\* A fallback that keeps the first lines instead of the last.
FallbackHead(ls) == SubSeq(ls, 1, Min(Len(ls), FallbackLines))

\* lines.slice(-100)
Fallback(ls) == SubSeq(ls, Max(1, Len(ls) - FallbackLines + 1), Len(ls))

\* The return statement after the loop.
ExtractResult(st, ls) ==
    IF Len(st.relevantLines) = 0 THEN Join(Fallback(ls))
    ELSE Join(st.relevantLines)

ScanInit ==
    [relevantLines |-> <<>>, seenLines |-> {}, inFailedStep |-> FALSE,
     errorContext |-> 0]

RECURSIVE ScanFrom(_, _, _)
ScanFrom(st, ls, k) ==
    IF k >= Len(ls) THEN st ELSE ScanFrom(ScanStep(st, ls, k), ls, k + 1)

\* extractRelevantLogs(fullLogs, jobName) as a function of the text
extractRelevantLogs(text) ==
    LET ls == Split(text) IN ExtractResult(ScanFrom(ScanInit, ls, 0), ls)

(***************************************************************************)
(* Input logs of the extractor: a leading pad of plain lines, then up to   *)
(* MaxSegs segments, each a marker line followed by a pad of plain lines.  *)
(* Plain lines cycle through PadTexts texts, so texts repeat in long logs. *)
(***************************************************************************)
PadTexts == 45

BoundaryLine == <<RunMarker, PlainWord>>          \* "Run build"
ErrorLine == <<PlainWord, ErrorToken>>            \* "npm error: ..."
FailedBoundaryLine == <<GroupMarker, FailedToken>> \* "##[group]... failed"

MarkerLines == {BoundaryLine, ErrorLine, FailedBoundaryLine}

\* Pad lengths: adjacent markers, and markers 29 and 30 lines apart.
PadLens == {0, 28, 29}

\* Lengths of marker-free logs around the fallback size 100.
FallbackLens == {0, 1, 2, 99, 100, 101}

LeadLens == {1}

\* n plain lines; the line at 0-based position p of the log has the text
\* PlainWord + 1 + (p mod PadTexts).
Pad(at, n) == [k \in 1..n |-> <<PlainWord + 1 + ((at + k - 1) % PadTexts)>>]

RECURSIVE GenSegs(_, _)
GenSegs(segs, at) ==
    IF segs = <<>> THEN <<>>
    ELSE <<segs[1].marker>> \o Pad(at + 1, segs[1].pad)
         \o GenSegs(Tail(segs), at + 1 + segs[1].pad)

Segments == [marker : MarkerLines, pad : PadLens]

GenLog(lead, segs) == Join(Pad(0, lead) \o GenSegs(segs, lead))

\* Marker-free logs of two identical lines, with and without a final newline.
RepeatedLogs == {Join(<<<<PlainWord>>, <<PlainWord>>>>),
                 Join(<<<<PlainWord>>, <<PlainWord>>, <<>>>>)}

\* Logs of a failed step followed by three more markers, each with at most
\* one plain line after it.
ShortPadLens == {0, 1}

NestedLogs ==
    {GenLog(1, <<[marker |-> FailedBoundaryLine, pad |-> 0]>> \o segs) :
        segs \in [1..3 -> [marker : MarkerLines, pad : ShortPadLens]]}

InputLogs ==
    {GenLog(n, <<>>) : n \in FallbackLens}
    \cup RepeatedLogs
    \cup NestedLogs
    \cup {GenLog(lead, segs) :
            lead \in LeadLens, segs \in SeqsUpTo(Segments, MaxSegs) \ {<<>>}}

ExtInit ==
    /\ fullLogs \in InputLogs
    /\ lines = <<>>
    /\ i = 0
    /\ relevantLines = <<>>
    /\ seenLines = {}
    /\ inFailedStep = FALSE
    /\ errorContext = 0
    /\ ePc = "start"
    /\ eResult = <<>>

ExtIdle ==
    /\ fullLogs = <<>>
    /\ lines = <<>>
    /\ i = 0
    /\ relevantLines = <<>>
    /\ seenLines = {}
    /\ inFailedStep = FALSE
    /\ errorContext = 0
    /\ ePc = "idle"
    /\ eResult = <<>>

ScanState ==
    [relevantLines |-> relevantLines, seenLines |-> seenLines,
     inFailedStep |-> inFailedStep, errorContext |-> errorContext]

\* const lines = fullLogs.split("\n"); ... let errorContext = 0
ExtStart ==
    /\ ePc = "start"
    /\ lines' = Split(fullLogs)
    /\ ePc' = "scan"
    /\ UNCHANGED <<fullLogs, i, relevantLines, seenLines, inFailedStep,
                   errorContext, eResult>>
    /\ UNCHANGED extOthers

\* One iteration of the for loop.
ScanApply ==
    LET st == ScanStep(ScanState, lines, i) IN
    /\ relevantLines' = st.relevantLines
    /\ seenLines' = st.seenLines
    /\ inFailedStep' = st.inFailedStep
    /\ errorContext' = st.errorContext
    /\ i' = i + 1
    /\ UNCHANGED <<fullLogs, lines, ePc, eResult>>
    /\ UNCHANGED extOthers

\* The line is a step boundary that contains an error indicator.
ScanFailedBoundary ==
    /\ ePc = "scan" /\ i < Len(lines)
    /\ isStepBoundary(lines[i + 1]) /\ containsErrorIndicator(lines[i + 1])
    /\ ScanApply

\* Any other line reached while (still) inside a failed step.
ScanInsideStep ==
    /\ ePc = "scan" /\ i < Len(lines)
    /\ ~(isStepBoundary(lines[i + 1]) /\ containsErrorIndicator(lines[i + 1]))
    /\ LeaveStep(ScanState, lines[i + 1]).inFailedStep
    /\ ScanApply

\* An error indicator outside a failed step: the local window.
ScanLocalError ==
    /\ ePc = "scan" /\ i < Len(lines)
    /\ ~isStepBoundary(lines[i + 1]) /\ containsErrorIndicator(lines[i + 1])
    /\ ~inFailedStep
    /\ ScanApply

\* A line that selects nothing: no indicator, and outside a failed step
\* (possibly a boundary that has just ended one).
ScanSkip ==
    /\ ePc = "scan" /\ i < Len(lines)
    /\ ~containsErrorIndicator(lines[i + 1])
    /\ ~LeaveStep(ScanState, lines[i + 1]).inFailedStep
    /\ ScanApply

\* The loop is over: return the selection, or the fallback.
ExtReturn ==
    /\ ePc = "scan" /\ i >= Len(lines)
    /\ eResult' = ExtractResult(ScanState, lines)
    /\ ePc' = "done"
    /\ UNCHANGED <<fullLogs, lines, i, relevantLines, seenLines, inFailedStep,
                   errorContext>>
    /\ UNCHANGED extOthers

ExtNext ==
    \/ ExtStart
    \/ ScanFailedBoundary
    \/ ScanInsideStep
    \/ ScanLocalError
    \/ ScanSkip
    \/ ExtReturn

(***************************************************************************)
(* The HTTP client: fetchWithRetry and explainFailure.                     *)
(***************************************************************************)
DefaultMaxRetries == 3
DefaultInitialDelayMs == 1000
DefaultMaxDelayMs == 10000

\* retryOptions = { maxRetries: 3, initialDelayMs: 1000, maxDelayMs: 10000 }
DefaultRetryOptions ==
    [maxRetries |-> DefaultMaxRetries, initialDelayMs |-> DefaultInitialDelayMs,
     maxDelayMs |-> DefaultMaxDelayMs]

\* Response statuses the analyzer is made to answer with.
Statuses == {200, 400, 413, 500, 408, 429, 502, 503, 504}

\* A shouldRetry that forgets 408.
shouldRetryWithout408(status) ==
    status = 429 \/ status = 502 \/ status = 503 \/ status = 504

\* A shouldRetry that also retries 500.
shouldRetryWith500(status) ==
    status = 429 \/ status = 502 \/ status = 503 \/ status = 504
    \/ status = 408 \/ status = 500

shouldRetry(status) ==
    status = 429 \/ status = 502 \/ status = 503 \/ status = 504 \/ status = 408

\* response.ok
Ok(status) == status >= 200 /\ status <= 299

\* Values of the retry-after header; "" stands for an absent header
\* (headers.get returns null).
RetryAfterHeaders == {"", "0", "2", "15", "Wed, 21 Oct 2026 07:28:00 GMT"}

\* parseInt(retryAfter, 10) on the header values above.
ParseInt(text) ==
    IF text = "0" THEN [nan |-> FALSE, n |-> 0]
    ELSE IF text = "2" THEN [nan |-> FALSE, n |-> 2]
    ELSE IF text = "15" THEN [nan |-> FALSE, n |-> 15]
    ELSE [nan |-> TRUE, n |-> 0]

\* Math.random() * 1000, in whole milliseconds
Jitters == {0, 500, 999}

\* 2^k
RECURSIVE Pow2(_)
Pow2(k) == IF k = 0 THEN 1 ELSE 2 * Pow2(k - 1)

\* A backoff that keeps doubling past maxDelayMs.
BackoffBaseUncapped(opts, k) == opts.initialDelayMs * Pow2(k)

\* Math.min(initialDelayMs * Math.pow(2, attempt), maxDelayMs)
BackoffBase(opts, k) == Min(opts.initialDelayMs * Pow2(k), opts.maxDelayMs)

\* A retry-after delay that is capped like the backoff.
RetryAfterDelayCapped(opts, header) ==
    LET p == ParseInt(header) IN
    IF p.nan THEN opts.initialDelayMs ELSE Min(p.n * 1000, opts.maxDelayMs)

\* isNaN(retryAfterSeconds) ? initialDelayMs : retryAfterSeconds * 1000
RetryAfterDelay(opts, header) ==
    LET p == ParseInt(header) IN
    IF p.nan THEN opts.initialDelayMs ELSE p.n * 1000

\* The delay before the retry that follows a retryable response.
ResponseDelay(opts, k, header, jitter) ==
    IF header # "" THEN RetryAfterDelay(opts, header)
    ELSE BackoffBase(opts, k) + jitter

\* The delay before the retry that follows a thrown fetch.
ErrorDelay(opts, k, jitter) == BackoffBase(opts, k) + jitter

\* Response bodies.  A failure body is plain text, the JSON of a rate-limit
\* answer, or cannot be read; a 200 body is an explanation, a skipped
\* answer, or no JSON at all.
FailureBodies ==
    {"Bad request", "{limit:35,remaining:0,reset_at:R}", "{error:quota}",
     "unreadable"}
OkBodies == {"{root_cause:test}", "{skipped:true,reason:Low confidence}", "not json"}

Responses ==
    {[status |-> s, retryAfter |-> h, body |-> b] :
        s \in Statuses, h \in RetryAfterHeaders, b \in FailureBodies \cup OkBodies}

\* The answers of the analyzer: a retry-after header accompanies retryable
\* statuses only, and the body fits the status.
AnalyzerResponses ==
    {r \in Responses :
        /\ (r.status = 200 <=> r.body \in OkBodies)
        /\ (~shouldRetry(r.status) => r.retryAfter = "")}

NoResponse == [status |-> 0, retryAfter |-> "", body |-> ""]
NoError == "none"

\* await res.text().catch(() => "")
BodyText(r) == IF r.body = "unreadable" THEN "" ELSE r.body

\* Whether JSON.parse(text) succeeds.
IsJson(text) ==
    text \in {"{limit:35,remaining:0,reset_at:R}", "{error:quota}",
              "{root_cause:test}", "{skipped:true,reason:Low confidence}"}

\* A property that the parsed object does not have.
Undefined == -1

\* errorData.limit, errorData.remaining and errorData.reset_at of
\* JSON.parse(text), for the texts that are JSON.
ErrorData(text) ==
    IF text = "{limit:35,remaining:0,reset_at:R}"
    THEN [limit |-> 35, remaining |-> 0, reset_at |-> "R"]
    ELSE [limit |-> Undefined, remaining |-> Undefined, reset_at |-> "undefined"]

NoOutcome ==
    [kind |-> "none", error |-> "", status |-> 0, text |-> "",
     rate_limited |-> FALSE, value |-> "",
     limit |-> Undefined, remaining |-> Undefined, reset_at |-> "undefined"]

Resolved(value, rateLimited, text) ==
    [kind |-> "resolved", error |-> "", status |-> 0, text |-> text,
     rate_limited |-> rateLimited, value |-> value,
     limit |-> Undefined, remaining |-> Undefined, reset_at |-> "undefined"]

Rejected(err, status, text) ==
    [kind |-> "rejected", error |-> err, status |-> status, text |-> text,
     rate_limited |-> FALSE, value |-> "",
     limit |-> Undefined, remaining |-> Undefined, reset_at |-> "undefined"]

\* A caller that turns the final 429 into an exception like any other status.
RateLimitThrows(r) == Rejected("Service error", r.status, BodyText(r))

\* A 429 handler that never parses the body.
RateLimitResultRawText(r) == Resolved("", TRUE, BodyText(r))

\* if (res.status === 429) { try { JSON.parse ... } catch { ... } }
RateLimitResult(r) ==
    IF IsJson(BodyText(r))
    THEN [Resolved("", TRUE, "") EXCEPT
            !.limit = ErrorData(BodyText(r)).limit,
            !.remaining = ErrorData(BodyText(r)).remaining,
            !.reset_at = ErrorData(BodyText(r)).reset_at]
    ELSE Resolved("", TRUE, BodyText(r))

\* if (!res.ok) { ... }: the outcome for a failure status
FailureResult(r) ==
    IF r.status = 429 THEN RateLimitResult(r)
    ELSE IF r.status = 413
         THEN Rejected("Request payload too large", r.status, BodyText(r))
    ELSE Rejected("Service error", r.status, BodyText(r))

\* A 200 handler that hands a skipped answer to the caller as a value.
OkResultKeepsSkipped(r) ==
    IF ~IsJson(r.body) THEN Rejected("invalid json", 0, "")
    ELSE Resolved(r.body, FALSE, "")

\* const result = await res.json(); if (result.skipped) throw ...
OkResult(r) ==
    IF ~IsJson(r.body) THEN Rejected("invalid json", 0, "")
    ELSE IF r.body = "{skipped:true,reason:Low confidence}"
         THEN Rejected("Analysis skipped by service", 0, "Low confidence")
    ELSE Resolved(r.body, FALSE, "")

\* What explainFailure makes of the response fetchWithRetry returned.
HandleResult(r) == IF ~Ok(r.status) THEN FailureResult(r) ELSE OkResult(r)

\* The retryOptions parameter of fetchWithRetry: the default, and options
\* whose doubling reaches maxDelayMs within the retries.
SlowRetryOptions ==
    [maxRetries |-> DefaultMaxRetries, initialDelayMs |-> 4 * DefaultInitialDelayMs,
     maxDelayMs |-> DefaultMaxDelayMs]

RetryOptionChoices == {DefaultRetryOptions, SlowRetryOptions}

ClientInit ==
    /\ cPc = "start"
    /\ retryOptions \in RetryOptionChoices
    /\ attempt = 0
    /\ lastError = NoError
    /\ response = NoResponse
    /\ lastFetch = "none"
    /\ delayMs = 0
    /\ aborted = FALSE
    /\ timerArmed = FALSE
    /\ fetchCalls = 0
    /\ sleepCalls = 0
    /\ retryableFailures = 0
    /\ outcome = NoOutcome

ClientIdle ==
    /\ cPc = "idle"
    /\ retryOptions = DefaultRetryOptions
    /\ attempt = 0
    /\ lastError = NoError
    /\ response = NoResponse
    /\ lastFetch = "none"
    /\ delayMs = 0
    /\ aborted = FALSE
    /\ timerArmed = FALSE
    /\ fetchCalls = 0
    /\ sleepCalls = 0
    /\ retryableFailures = 0
    /\ outcome = NoOutcome

\* explainFailure up to the first fetch: the controller and its 60 s timer
\* are set up and fetchWithRetry starts attempt 0.
ExplainStart ==
    /\ cPc = "start"
    /\ cPc' = "fetch"
    /\ timerArmed' = TRUE
    /\ attempt' = 0
    /\ fetchCalls' = 1
    /\ UNCHANGED <<retryOptions, lastError, response, lastFetch, delayMs, aborted,
                   sleepCalls, retryableFailures, outcome>>
    /\ UNCHANGED clientOthers

\* setTimeout(() => controller.abort(), 60000) fires while the request runs.
TimerFires ==
    /\ cPc \in {"fetch", "sleep"}
    /\ timerArmed /\ ~aborted
    /\ aborted' = TRUE
    /\ UNCHANGED <<cPc, retryOptions, attempt, lastError, response, lastFetch,
                   delayMs, timerArmed, fetchCalls, sleepCalls,
                   retryableFailures, outcome>>
    /\ UNCHANGED clientOthers

\* fetch resolves with a response that ends the loop: ok, or a status that
\* is not retried, or a retryable status on the last attempt.
FetchReturns ==
    /\ cPc = "fetch" /\ ~aborted
    /\ \E r \in AnalyzerResponses :
        /\ \/ Ok(r.status) \/ ~shouldRetry(r.status)
           \/ ~(attempt < retryOptions.maxRetries)
        /\ response' = r
        /\ retryableFailures' =
              retryableFailures + (IF shouldRetry(r.status) THEN 1 ELSE 0)
    /\ lastFetch' = "response"
    /\ cPc' = "respond"
    /\ UNCHANGED <<retryOptions, attempt, lastError, delayMs, aborted, timerArmed,
                   fetchCalls, sleepCalls, outcome>>
    /\ UNCHANGED clientOthers

\* fetch resolves with a retryable status and a retry is left: compute the
\* delay and sleep.
FetchRetryable ==
    /\ cPc = "fetch" /\ ~aborted
    /\ \E r \in AnalyzerResponses, jitter \in Jitters :
        /\ ~Ok(r.status) /\ shouldRetry(r.status)
        /\ attempt < retryOptions.maxRetries
        /\ response' = r
        /\ delayMs' = ResponseDelay(retryOptions, attempt, r.retryAfter, jitter)
    /\ lastFetch' = "response"
    /\ retryableFailures' = retryableFailures + 1
    /\ sleepCalls' = sleepCalls + 1
    /\ cPc' = "sleep"
    /\ UNCHANGED <<retryOptions, attempt, lastError, aborted, timerArmed,
                   fetchCalls, outcome>>
    /\ UNCHANGED clientOthers

\* The error fetch rejects with: an AbortError once the signal is aborted,
\* a network error before.
FetchError == IF aborted THEN "AbortError" ELSE "Network error"

\* fetch throws and a retry is left: remember the error, back off.
FetchThrowsRetry ==
    /\ cPc = "fetch"
    /\ attempt < retryOptions.maxRetries
    /\ lastError' = FetchError
    /\ lastFetch' = "error"
    /\ \E jitter \in Jitters :
          delayMs' = ErrorDelay(retryOptions, attempt, jitter)
    /\ retryableFailures' = retryableFailures + 1
    /\ sleepCalls' = sleepCalls + 1
    /\ cPc' = "sleep"
    /\ UNCHANGED <<retryOptions, attempt, response, aborted, timerArmed,
                   fetchCalls, outcome>>
    /\ UNCHANGED clientOthers

\* fetch throws on the last attempt: the loop ends, fetchWithRetry throws
\* lastError, explainFailure clears the timer and rejects with it.
FetchThrowsLast ==
    /\ cPc = "fetch"
    /\ ~(attempt < retryOptions.maxRetries)
    /\ lastError' = FetchError
    /\ lastFetch' = "error"
    /\ retryableFailures' = retryableFailures + 1
    /\ outcome' = Rejected(FetchError, 0, "")
    /\ timerArmed' = FALSE
    /\ cPc' = "done"
    /\ UNCHANGED <<retryOptions, attempt, response, delayMs, aborted,
                   fetchCalls, sleepCalls>>
    /\ UNCHANGED clientOthers

\* await sleep(delayMs); continue: the next attempt calls fetch.
SleepDone ==
    /\ cPc = "sleep"
    /\ attempt' = attempt + 1
    /\ fetchCalls' = fetchCalls + 1
    /\ cPc' = "fetch"
    /\ UNCHANGED <<retryOptions, lastError, response, lastFetch, delayMs, aborted,
                   timerArmed, sleepCalls, retryableFailures, outcome>>
    /\ UNCHANGED clientOthers

\* explainFailure handles the response fetchWithRetry returned; finally
\* clears the timer.
HandleResponse ==
    /\ cPc = "respond"
    /\ outcome' = HandleResult(response)
    /\ timerArmed' = FALSE
    /\ cPc' = "done"
    /\ UNCHANGED <<retryOptions, attempt, lastError, response, lastFetch, delayMs,
                   aborted, fetchCalls, sleepCalls, retryableFailures>>
    /\ UNCHANGED clientOthers

ClientNext ==
    \/ ExplainStart
    \/ TimerFires
    \/ FetchReturns
    \/ FetchRetryable
    \/ FetchThrowsRetry
    \/ FetchThrowsLast
    \/ SleepDone
    \/ HandleResponse

(***************************************************************************)
(* The pipeline: run(), with validatePayloadSize and the call of the       *)
(* analyzer.                                                               *)
(***************************************************************************)
\* parseInt(process.env.ACTION_MAX_REQUEST_KB || '512', 10) * 1024
MAX_REQUEST_BYTES == 512 * 1024

\* JSON.stringify(payload): the body's length in UTF-16 code units and in
\* UTF-8 bytes.  Bodies of ASCII text have as many bytes as units; a body
\* with one three-byte character has two bytes more.
Body(units, wide) == [length |-> units, bytes |-> units + 2 * wide]

SerializedPayloads ==
    {Body(n, 0) : n \in {MaxSmallBody, MAX_REQUEST_BYTES - 1, MAX_REQUEST_BYTES,
                         MAX_REQUEST_BYTES + 1}}
    \cup {Body(MAX_REQUEST_BYTES - 2, 1), Body(MAX_REQUEST_BYTES - 1, 1)}

NoPayload == [length |-> 0, bytes |-> 0]

\* Buffer.byteLength(s, "utf8")
byteLengthUtf8(body) == body.bytes

\* A size check that also rejects a payload of exactly the ceiling.
PayloadTooLargeAtCeiling(body) == byteLengthUtf8(body) >= MAX_REQUEST_BYTES

\* if (bytes > MAX_REQUEST_BYTES) throw
PayloadTooLarge(body) == byteLengthUtf8(body) > MAX_REQUEST_BYTES

NoResult == [skipped |-> FALSE, rate_limited |-> FALSE, value |-> ""]

\* The result explainFailure resolved with, as run() reads it.
ResultOf(o) ==
    [skipped |-> o.value = "{skipped:true,reason:Low confidence}",
     rate_limited |-> o.rate_limited, value |-> o.value]

\* What the awaited analyzeWithPolling call can settle with: a result,
\* a skipped result, or an exception.
PollingOutcomes ==
    {Resolved("{root_cause:test}", FALSE, ""),
     Resolved("{skipped:true,reason:Low confidence}", FALSE, ""),
     Rejected("Polling failed", 0, "")}

RunInit ==
    /\ rPc = "start"
    /\ useMultiJob \in BOOLEAN
    /\ failedJobs = 0
    /\ payload = NoPayload
    /\ validateCalls = 0
    /\ analyzerRequests = 0
    /\ result = NoResult
    /\ summaries = <<>>
    /\ runWarnings = <<>>
    /\ setFailedCalls = <<>>

RunIdle ==
    /\ rPc = "idle"
    /\ useMultiJob = FALSE
    /\ failedJobs = 0
    /\ payload = NoPayload
    /\ validateCalls = 0
    /\ analyzerRequests = 0
    /\ result = NoResult
    /\ summaries = <<>>
    /\ runWarnings = <<>>
    /\ setFailedCalls = <<>>

\* Inputs are read, the git context is collected, the payload is started.
RunStart ==
    /\ rPc = "start"
    /\ rPc' = "collect"
    /\ UNCHANGED <<useMultiJob, failedJobs, payload, validateCalls,
                   analyzerRequests, result, summaries, runWarnings,
                   setFailedCalls>>
    /\ UNCHANGED runOthers /\ UNCHANGED clientVars

\* A run that goes on with a list of no jobs.
NothingToAnalyzeNever(n) == n < 0

\* if (failedJobs.length === 0)
NothingToAnalyze(n) == n = 0

\* fetchMultipleFailedJobs returned no job: warn and return.
CollectNothing ==
    /\ rPc = "collect" /\ useMultiJob
    /\ \E n \in 0..MaxFailedJobs : NothingToAnalyze(n) /\ failedJobs' = n
    /\ runWarnings' = Append(runWarnings, "No failed jobs found to analyze")
    /\ rPc' = "done"
    /\ UNCHANGED <<useMultiJob, payload, validateCalls, analyzerRequests,
                   result, summaries, setFailedCalls>>
    /\ UNCHANGED runOthers /\ UNCHANGED clientVars

\* fetchMultipleFailedJobs returned some jobs: they go into the payload.
CollectFailedJobs ==
    /\ rPc = "collect" /\ useMultiJob
    /\ \E n \in 0..MaxFailedJobs : ~NothingToAnalyze(n) /\ failedJobs' = n
    /\ \E p \in SerializedPayloads : payload' = p
    /\ rPc' = "validate"
    /\ UNCHANGED <<useMultiJob, validateCalls, analyzerRequests, result,
                   summaries, runWarnings, setFailedCalls>>
    /\ UNCHANGED runOthers /\ UNCHANGED clientVars

\* Single-job mode: the log excerpt goes into the payload.
CollectJobLogs ==
    /\ rPc = "collect" /\ ~useMultiJob
    /\ \E p \in SerializedPayloads : payload' = p
    /\ rPc' = "validate"
    /\ UNCHANGED <<useMultiJob, failedJobs, validateCalls, analyzerRequests,
                   result, summaries, runWarnings, setFailedCalls>>
    /\ UNCHANGED runOthers /\ UNCHANGED clientVars

\* A catch of run() that swallows the error.
CatchSwallows(calls, message) == calls

\* catch (err) { core.setFailed(err?.message ?? String(err)) }
Catch(calls, message) == Append(calls, message)

\* validatePayloadSize throws; the catch of run() reports the failure.
ValidateRejects ==
    /\ rPc = "validate"
    /\ PayloadTooLarge(payload)
    /\ validateCalls' = validateCalls + 1
    /\ setFailedCalls' =
          Catch(setFailedCalls, "Request payload too large: bytes over max")
    /\ rPc' = "done"
    /\ UNCHANGED <<useMultiJob, failedJobs, payload, analyzerRequests, result,
                   summaries, runWarnings>>
    /\ UNCHANGED runOthers /\ UNCHANGED clientVars

\* validatePayloadSize returns.
ValidateAccepts ==
    /\ rPc = "validate"
    /\ ~PayloadTooLarge(payload)
    /\ validateCalls' = validateCalls + 1
    /\ rPc' = "analyze"
    /\ UNCHANGED <<useMultiJob, failedJobs, payload, analyzerRequests, result,
                   summaries, runWarnings, setFailedCalls>>
    /\ UNCHANGED runOthers /\ UNCHANGED clientVars

\* result = await analyzeWithPolling(...): the call settles.
AnalyzePolling ==
    /\ rPc = "analyze" /\ useMultiJob
    /\ analyzerRequests' = analyzerRequests + 1
    /\ \E o \in PollingOutcomes :
          IF o.kind = "resolved"
          THEN /\ result' = ResultOf(o)
               /\ rPc' = "post"
               /\ UNCHANGED setFailedCalls
          ELSE /\ setFailedCalls' = Catch(setFailedCalls, o.error)
               /\ rPc' = "done"
               /\ UNCHANGED result
    /\ UNCHANGED <<useMultiJob, failedJobs, payload, validateCalls, summaries,
                   runWarnings>>
    /\ UNCHANGED runOthers /\ UNCHANGED clientVars

\* result = await explainFailure(...): the call starts.
AnalyzeSync ==
    /\ rPc = "analyze" /\ ~useMultiJob
    /\ cPc = "idle"
    /\ analyzerRequests' = analyzerRequests + 1
    /\ cPc' = "start"
    /\ rPc' = "awaiting"
    /\ UNCHANGED <<useMultiJob, failedJobs, payload, validateCalls, result,
                   summaries, runWarnings, setFailedCalls>>
    /\ UNCHANGED <<retryOptions, attempt, lastError, response, lastFetch,
                   delayMs, aborted, timerArmed, fetchCalls, sleepCalls,
                   retryableFailures, outcome>>
    /\ UNCHANGED runOthers

\* explainFailure resolved: run() goes on with the result.
ExplainResolved ==
    /\ rPc = "awaiting" /\ cPc = "done"
    /\ outcome.kind = "resolved"
    /\ result' = ResultOf(outcome)
    /\ rPc' = "post"
    /\ UNCHANGED <<useMultiJob, failedJobs, payload, validateCalls,
                   analyzerRequests, summaries, runWarnings, setFailedCalls>>
    /\ UNCHANGED runOthers /\ UNCHANGED clientVars

\* explainFailure rejected: the catch of run() reports the failure.
ExplainRejected ==
    /\ rPc = "awaiting" /\ cPc = "done"
    /\ outcome.kind = "rejected"
    /\ setFailedCalls' = Catch(setFailedCalls, outcome.error)
    /\ rPc' = "done"
    /\ UNCHANGED <<useMultiJob, failedJobs, payload, validateCalls,
                   analyzerRequests, result, summaries, runWarnings>>
    /\ UNCHANGED runOthers /\ UNCHANGED clientVars

\* The summary is posted: at once for a skipped result, after the fix
\* suggestions otherwise.
PostSummary ==
    /\ rPc = "post"
    /\ summaries' = Append(summaries,
            IF result.skipped THEN "skipped"
            ELSE IF result.rate_limited THEN "rate_limited"
            ELSE "explanation")
    /\ rPc' = "done"
    /\ UNCHANGED <<useMultiJob, failedJobs, payload, validateCalls,
                   analyzerRequests, result, runWarnings, setFailedCalls>>
    /\ UNCHANGED runOthers /\ UNCHANGED clientVars

RunNext ==
    \/ RunStart
    \/ CollectNothing
    \/ CollectFailedJobs
    \/ CollectJobLogs
    \/ ValidateRejects
    \/ ValidateAccepts
    \/ AnalyzePolling
    \/ AnalyzeSync
    \/ ExplainResolved
    \/ ExplainRejected
    \/ PostSummary
    \/ ClientNext

(***************************************************************************)
(* Multi-job log collection: the concurrent downloads of                   *)
(* fetchLogsFromGitHub in dist/logs.js.                                    *)
(***************************************************************************)
\* jobs.jobs as the host API lists them: each job has its position as id
\* and a conclusion.
Listings ==
    UNION {[1..n -> {"failure", "success"}] : n \in 0..MaxJobs}

\* jobs.jobs.filter(job => job.status === "completed" &&
\*                         job.conclusion === "failure"): the ids, in order
RECURSIVE FilterFailed(_, _)
FilterFailed(jobs, k) ==
    IF k > Len(jobs) THEN <<>>
    ELSE (IF jobs[k] = "failure" THEN <<k>> ELSE <<>>) \o FilterFailed(jobs, k + 1)

NoEntry == [jobId |-> 0, logs |-> "none"]

\* { jobName, jobId, logs: extractRelevantLogs(logs, job.name) }
ExcerptEntry(id) == [jobId |-> id, logs |-> "excerpt"]

\* { jobName, jobId, logs: `Failed to download logs: ${error}` }
FailureEntry(id) == [jobId |-> id, logs |-> "Failed to download logs"]

\* The position of the first promise that has not settled.
FirstOpen(settled) ==
    CHOOSE k \in 1..Len(settled) :
        settled[k] = NoEntry /\ \A j \in 1..(k - 1) : settled[j] # NoEntry

\* Results that are collected in the order in which the downloads end.
SettleInCompletionOrder(settled, k, entry) ==
    [settled EXCEPT ![FirstOpen(settled)] = entry]

\* Promise.all: the value of the k-th promise is the k-th result.
Settle(settled, k, entry) == [settled EXCEPT ![k] = entry]

ColInit ==
    /\ colPc = "start"
    /\ listing \in Listings
    /\ colFailedJobs = <<>>
    /\ task = <<>>
    /\ jobLogs = <<>>
    /\ completionOrder = <<>>
    /\ colWarnings = <<>>
    /\ combinedLogs = <<>>

ColIdle ==
    /\ colPc = "idle"
    /\ listing = <<>>
    /\ colFailedJobs = <<>>
    /\ task = <<>>
    /\ jobLogs = <<>>
    /\ completionOrder = <<>>
    /\ colWarnings = <<>>
    /\ combinedLogs = <<>>

\* listJobsForWorkflowRun throws: fetchLogsFromGitHub rejects.
ListJobsThrows ==
    /\ colPc = "start"
    /\ colPc' = "rejected"
    /\ UNCHANGED <<listing, colFailedJobs, task, jobLogs, completionOrder,
                   colWarnings, combinedLogs>>
    /\ UNCHANGED colOthers

\* The listing has no failed job: warn and return "No failed jobs found".
ListNoFailedJobs ==
    /\ colPc = "start"
    /\ FilterFailed(listing, 1) = <<>>
    /\ colWarnings' = Append(colWarnings, [kind |-> "No failed jobs found", jobId |-> 0])
    /\ colPc' = "done"
    /\ UNCHANGED <<listing, colFailedJobs, task, jobLogs, completionOrder,
                   combinedLogs>>
    /\ UNCHANGED colOthers

\* failedJobs.map(async job => ...): every download is started, in order.
StartDownloads ==
    /\ colPc = "start"
    /\ FilterFailed(listing, 1) # <<>>
    /\ colFailedJobs' = FilterFailed(listing, 1)
    /\ task' = [k \in 1..Len(FilterFailed(listing, 1)) |-> "downloading"]
    /\ jobLogs' = [k \in 1..Len(FilterFailed(listing, 1)) |-> NoEntry]
    /\ colPc' = "download"
    /\ UNCHANGED <<listing, completionOrder, colWarnings, combinedLogs>>
    /\ UNCHANGED colOthers

\* One download resolves; its excerpt is the value of its promise.
DownloadResolves ==
    /\ colPc = "download"
    /\ \E k \in 1..Len(task) :
        /\ task[k] = "downloading"
        /\ task' = [task EXCEPT ![k] = "settled"]
        /\ jobLogs' = Settle(jobLogs, k, ExcerptEntry(colFailedJobs[k]))
        /\ completionOrder' = Append(completionOrder, k)
    /\ UNCHANGED <<colPc, listing, colFailedJobs, colWarnings, combinedLogs>>
    /\ UNCHANGED colOthers

\* One download throws; the catch warns and returns the failure entry.
DownloadThrows ==
    /\ colPc = "download"
    /\ \E k \in 1..Len(task) :
        /\ task[k] = "downloading"
        /\ task' = [task EXCEPT ![k] = "settled"]
        /\ jobLogs' = Settle(jobLogs, k, FailureEntry(colFailedJobs[k]))
        /\ colWarnings' = Append(colWarnings,
              [kind |-> "Failed to download logs for job", jobId |-> colFailedJobs[k]])
        /\ completionOrder' = Append(completionOrder, k)
    /\ UNCHANGED <<colPc, listing, colFailedJobs, combinedLogs>>
    /\ UNCHANGED colOthers

\* await Promise.all(logPromises), then the sections are joined in order.
CombineLogs ==
    /\ colPc = "download"
    /\ \A k \in 1..Len(task) : task[k] = "settled"
    /\ combinedLogs' = jobLogs
    /\ colPc' = "done"
    /\ UNCHANGED <<listing, colFailedJobs, task, jobLogs, completionOrder,
                   colWarnings>>
    /\ UNCHANGED colOthers

ColNext ==
    \/ ListJobsThrows
    \/ ListNoFailedJobs
    \/ StartDownloads
    \/ DownloadResolves
    \/ DownloadThrows
    \/ CombineLogs

(***************************************************************************)
(* Single-job log collection: fetchJobLogsBestEffort and                   *)
(* fetchLogsFromGitHub.                                                    *)
(***************************************************************************)
\* Raw log texts, of the override file or of the download: one line, a
\* repeated error line, an error line between two equal lines of a
\* two-byte character.
RawLogs ==
    {<<97>>, <<ErrorToken, NL, ErrorToken>>, <<233, NL, ErrorToken, NL, 233>>}

\* The three messages, as texts of two characters:
\* "Failed to fetch logs. Ensure GITHUB_TOKEN has appropriate permissions."
FetchFailedText == <<70, 102>>
\* `Could not find logs for job: ${currentJobName}`
JobNotFoundText == <<67, 110>>
\* `Failed to download logs: ${error}`
DownloadFailedText == <<70, 100>>

\* Names of the listed jobs; context.job is "build".
JobNames == {"build", "Build", "test"}
CurrentJobName == "build"

JobListings == UNION {[1..n -> JobNames] : n \in 0..MaxListed}

\* A comparison of job names that ignores case.
SameJobNameIgnoringCase(a, b) ==
    (IF a = "Build" THEN "build" ELSE a) = (IF b = "Build" THEN "build" ELSE b)

\* job.name === currentJobName
SameJobName(a, b) == a = b

\* jobs.jobs.find(job => job.name === currentJobName): the position of the
\* first match, 0 when there is none
Find(jobs, name) ==
    IF \E k \in 1..Len(jobs) : SameJobName(jobs[k], name)
    THEN CHOOSE k \in 1..Len(jobs) :
            /\ SameJobName(jobs[k], name)
            /\ \A j \in 1..(k - 1) : ~SameJobName(jobs[j], name)
    ELSE 0

FetchInit ==
    /\ fPc = "start"
    /\ logPathExists \in BOOLEAN
    /\ hasToken \in BOOLEAN
    /\ maxLogBytes \in 1..MaxBudget
    /\ rawLog \in RawLogs
    /\ jobList \in JobListings
    /\ currentJob = 0
    /\ listCalls = 0
    /\ downloadCalls = 0
    /\ fetchWarnings = <<>>
    /\ fetchedLogs = <<>>

FetchIdle ==
    /\ fPc = "idle"
    /\ logPathExists = FALSE
    /\ hasToken = FALSE
    /\ maxLogBytes = 1
    /\ rawLog = <<>>
    /\ jobList = <<>>
    /\ currentJob = 0
    /\ listCalls = 0
    /\ downloadCalls = 0
    /\ fetchWarnings = <<>>
    /\ fetchedLogs = <<>>

\* WHYDIDITFAIL_LOG_PATH names a file: its text is truncated and returned.
ReadLogFile ==
    /\ fPc = "start" /\ logPathExists
    /\ fetchedLogs' = truncate(rawLog, maxLogBytes)
    /\ fPc' = "done"
    /\ UNCHANGED <<logPathExists, hasToken, maxLogBytes, rawLog, jobList,
                   currentJob, listCalls, downloadCalls, fetchWarnings>>
    /\ UNCHANGED fetchOthers

\* fs.readFileSync throws (the path is a directory, say): nothing catches
\* it and fetchJobLogsBestEffort rejects.
ReadLogFileThrows ==
    /\ fPc = "start" /\ logPathExists
    /\ fPc' = "rejected"
    /\ UNCHANGED <<logPathExists, hasToken, maxLogBytes, rawLog, jobList,
                   currentJob, listCalls, downloadCalls, fetchWarnings,
                   fetchedLogs>>
    /\ UNCHANGED fetchOthers

\* No token: fetchLogsFromGitHub throws, the catch returns the message.
MissingToken ==
    /\ fPc = "start" /\ ~logPathExists /\ ~hasToken
    /\ fetchWarnings' = Append(fetchWarnings, "Failed to fetch logs from GitHub API")
    /\ fetchedLogs' = truncate(FetchFailedText, maxLogBytes)
    /\ fPc' = "done"
    /\ UNCHANGED <<logPathExists, hasToken, maxLogBytes, rawLog, jobList,
                   currentJob, listCalls, downloadCalls>>
    /\ UNCHANGED fetchOthers

\* listJobsForWorkflowRun throws, the catch returns the message.
ListingFails ==
    /\ fPc = "start" /\ ~logPathExists /\ hasToken
    /\ listCalls' = listCalls + 1
    /\ fetchWarnings' = Append(fetchWarnings, "Failed to fetch logs from GitHub API")
    /\ fetchedLogs' = truncate(FetchFailedText, maxLogBytes)
    /\ fPc' = "done"
    /\ UNCHANGED <<logPathExists, hasToken, maxLogBytes, rawLog, jobList,
                   currentJob, downloadCalls>>
    /\ UNCHANGED fetchOthers

\* The listing has no job of the current job's name: the placeholder.
JobNotFound ==
    /\ fPc = "start" /\ ~logPathExists /\ hasToken
    /\ Find(jobList, CurrentJobName) = 0
    /\ listCalls' = listCalls + 1
    /\ fetchWarnings' = Append(fetchWarnings, "Could not find current job")
    /\ fetchedLogs' = truncate(JobNotFoundText, maxLogBytes)
    /\ fPc' = "done"
    /\ UNCHANGED <<logPathExists, hasToken, maxLogBytes, rawLog, jobList,
                   currentJob, downloadCalls>>
    /\ UNCHANGED fetchOthers

\* The current job is listed: its log download is requested.
JobFound ==
    /\ fPc = "start" /\ ~logPathExists /\ hasToken
    /\ Find(jobList, CurrentJobName) # 0
    /\ listCalls' = listCalls + 1
    /\ currentJob' = Find(jobList, CurrentJobName)
    /\ downloadCalls' = downloadCalls + 1
    /\ fPc' = "download"
    /\ UNCHANGED <<logPathExists, hasToken, maxLogBytes, rawLog, jobList,
                   fetchWarnings, fetchedLogs>>
    /\ UNCHANGED fetchOthers

\* The download resolves: the log is extracted, then truncated.
DownloadSucceeds ==
    /\ fPc = "download"
    /\ fetchedLogs' = truncate(extractRelevantLogs(rawLog), maxLogBytes)
    /\ fPc' = "done"
    /\ UNCHANGED <<logPathExists, hasToken, maxLogBytes, rawLog, jobList,
                   currentJob, listCalls, downloadCalls, fetchWarnings>>
    /\ UNCHANGED fetchOthers

\* The download throws: the inner catch returns the message.
DownloadFails ==
    /\ fPc = "download"
    /\ fetchWarnings' = Append(fetchWarnings, "Failed to download logs for job")
    /\ fetchedLogs' = truncate(DownloadFailedText, maxLogBytes)
    /\ fPc' = "done"
    /\ UNCHANGED <<logPathExists, hasToken, maxLogBytes, rawLog, jobList,
                   currentJob, listCalls, downloadCalls>>
    /\ UNCHANGED fetchOthers

FetchNext ==
    \/ ReadLogFile
    \/ ReadLogFileThrows
    \/ MissingToken
    \/ ListingFails
    \/ JobNotFound
    \/ JobFound
    \/ DownloadSucceeds
    \/ DownloadFails

(***************************************************************************)
(* The git context: getGitContext with its local and API collectors.       *)
(***************************************************************************)
MAX_DIFF_CHARS == 20000
MAX_COMMIT_MSG_CHARS == 5000

\* A text is kept as a sequence of runs, each a character and the number of
\* times it is repeated.
Repeat(c, n) == IF n = 0 THEN <<>> ELSE <<[c |-> c, n |-> n]>>

\* s.length
RECURSIVE TextLength(_)
TextLength(s) == IF s = <<>> THEN 0 ELSE Head(s).n + TextLength(Tail(s))

\* s.slice(0, n)
RECURSIVE SliceTo(_, _)
SliceTo(s, n) ==
    IF s = <<>> \/ n <= 0 THEN <<>>
    ELSE IF Head(s).n <= n THEN <<Head(s)>> \o SliceTo(Tail(s), n - Head(s).n)
    ELSE Repeat(Head(s).c, n)

\* "\n...TRUNCATED...\n"
TruncatedMarker ==
    Repeat(10, 1) \o Repeat(46, 3) \o Repeat(84, 1) \o Repeat(82, 1) \o Repeat(85, 1)
    \o Repeat(78, 1) \o Repeat(67, 1) \o Repeat(65, 1) \o Repeat(84, 1)
    \o Repeat(69, 1) \o Repeat(68, 1) \o Repeat(46, 3) \o Repeat(10, 1)

\* truncate of git-context.ts:
\* s.length > maxChars ? s.slice(0, maxChars) + marker : s
truncateChars(s, maxChars) ==
    IF s = <<>> THEN s
    ELSE IF TextLength(s) > maxChars THEN SliceTo(s, maxChars) \o TruncatedMarker
    ELSE s

\* Lists of modified files, each file by what its name matches.
FileLists ==
    {<<>>, <<"test">>, <<"test", "source">>, <<"dependency">>, <<"ci", "test">>}

\* computeHeuristics(modifiedFiles)
computeHeuristics(files) ==
    [only_tests_changed |->
        files # <<>> /\ \A k \in 1..Len(files) : files[k] = "test",
     dependencies_changed |-> \E k \in 1..Len(files) : files[k] = "dependency",
     ci_config_changed |-> \E k \in 1..Len(files) : files[k] = "ci"]

\* The context a collector returns.
Context(files, diff, messages) ==
    [modified_files |-> files,
     diff |-> truncateChars(diff, MAX_DIFF_CHARS),
     commit_messages |-> truncateChars(messages, MAX_COMMIT_MSG_CHARS),
     only_tests_changed |-> computeHeuristics(files).only_tests_changed,
     dependencies_changed |-> computeHeuristics(files).dependencies_changed,
     ci_config_changed |-> computeHeuristics(files).ci_config_changed]

\* The context returned when both collectors failed.
EmptyContext ==
    [modified_files |-> <<>>, diff |-> <<>>, commit_messages |-> <<>>,
     only_tests_changed |-> FALSE,
     dependencies_changed |-> FALSE,
     ci_config_changed |-> FALSE]

\* Lengths of the diff and of the commit messages the collectors meet.
DiffLengths ==
    {0, 1, MAX_DIFF_CHARS - 1, MAX_DIFF_CHARS, MAX_DIFF_CHARS + 1,
     MAX_DIFF_CHARS + MaxOver}
MessageLengths ==
    {1, MAX_COMMIT_MSG_CHARS, MAX_COMMIT_MSG_CHARS + 1,
     MAX_COMMIT_MSG_CHARS + MaxOver}

\* A getGitContext that asks the API whatever the local attempt gave.
CallsApiAlways(local) == TRUE

\* if (!gitContext): the local attempt returned null
CallsApi(local) == local = "null"

GitInit ==
    /\ gPc = "start"
    /\ hasBaseSha \in BOOLEAN
    /\ localResult = "none"
    /\ apiResult = "none"
    /\ rawDiff = <<>>
    /\ rawMessages = <<>>
    /\ gitContext = EmptyContext
    /\ gitWarnings = <<>>

GitIdle ==
    /\ gPc = "idle"
    /\ hasBaseSha = FALSE
    /\ localResult = "none"
    /\ apiResult = "none"
    /\ rawDiff = <<>>
    /\ rawMessages = <<>>
    /\ gitContext = EmptyContext
    /\ gitWarnings = <<>>

\* What a collector reads: files, diff and messages with a base sha, the
\* last commit's message without one.
Collected(files, d, m) ==
    /\ files \in FileLists
    /\ d \in DiffLengths
    /\ m \in MessageLengths
    /\ ~hasBaseSha => d = 0

\* getGitContextLocal returns a context.
LocalSucceeds ==
    /\ gPc = "start"
    /\ \E files \in FileLists, d \in DiffLengths, m \in MessageLengths :
        /\ Collected(files, d, m)
        /\ ~hasBaseSha => files = <<>>
        /\ rawDiff' = Repeat(100, d)
        /\ rawMessages' = Repeat(109, m)
        /\ gitContext' = Context(files, Repeat(100, d), Repeat(109, m))
    /\ localResult' = "context"
    /\ gPc' = IF CallsApi("context") THEN "api" ELSE "done"
    /\ UNCHANGED <<hasBaseSha, apiResult, gitWarnings>>
    /\ UNCHANGED gitOthers

\* A git command fails: getGitContextLocal returns null.
LocalFails ==
    /\ gPc = "start"
    /\ localResult' = "null"
    /\ gPc' = IF CallsApi("null") THEN "api" ELSE "done"
    /\ UNCHANGED <<hasBaseSha, apiResult, rawDiff, rawMessages, gitContext,
                   gitWarnings>>
    /\ UNCHANGED gitOthers

\* getGitContextViaAPI returns a context.
ApiSucceeds ==
    /\ gPc = "api"
    /\ \E files \in FileLists, d \in DiffLengths, m \in MessageLengths :
        /\ Collected(files, d, m)
        /\ rawDiff' = Repeat(100, d)
        /\ rawMessages' = Repeat(109, m)
        /\ gitContext' = Context(files, Repeat(100, d), Repeat(109, m))
    /\ apiResult' = "context"
    /\ gPc' = "done"
    /\ UNCHANGED <<hasBaseSha, localResult, gitWarnings>>
    /\ UNCHANGED gitOthers

\* An API call fails: getGitContextViaAPI warns and returns null, and
\* getGitContext returns the empty context unless it already has one.
ApiFails ==
    /\ gPc = "api"
    /\ apiResult' = "null"
    /\ gitWarnings' =
          gitWarnings \o <<"Failed to fetch git context via API">>
          \o (IF localResult = "null"
              THEN <<"Could not fetch git context, proceeding without it">>
              ELSE <<>>)
    /\ gitContext' = IF localResult = "null" THEN EmptyContext ELSE gitContext
    /\ gPc' = "done"
    /\ UNCHANGED <<hasBaseSha, localResult, rawDiff, rawMessages>>
    /\ UNCHANGED gitOthers

GitNext ==
    \/ LocalSucceeds
    \/ LocalFails
    \/ ApiSucceeds
    \/ ApiFails

(***************************************************************************)
(* Cleanup of old comments: cleanupOldPRComments and                       *)
(* cleanupOldReviewComments.                                               *)
(***************************************************************************)
RunIds == {1, 2}

\* The run ids a body names with "Run #<id>", in the order they appear.  The
\* footer the action writes comes last; what precedes it is the analyzer's
\* text and the job name.
RunMentions == {<<>>, <<1>>, <<2>>, <<1, 2>>, <<2, 1>>}

CommentKinds ==
    [type : {"Bot", "User"}, marker : BOOLEAN, mentions : RunMentions]

CommentLists == UNION {[1..n -> CommentKinds] : n \in 0..MaxComments}

Null == 0

\* body.match(/Run #(\d+)/): the first run id the body names, or null
commentRunId(comment) ==
    IF comment.mentions = <<>> THEN Null ELSE Head(comment.mentions)

\* comment.user?.type === 'Bot' && comment.body?.includes(WDF_MARKER)
IsBotComment(comment) == comment.type = "Bot" /\ comment.marker

\* The positions of the comments the filter keeps, in order.
RECURSIVE FilterBot(_, _)
FilterBot(list, k) ==
    IF k > Len(list) THEN <<>>
    ELSE (IF IsBotComment(list[k]) THEN <<k>> ELSE <<>>) \o FilterBot(list, k + 1)

\* commentRunId !== null && commentRunId !== currentRunId
IsOldRun(comment, current) ==
    commentRunId(comment) # Null /\ commentRunId(comment) # current

CleanInit ==
    /\ clPc = "start"
    /\ clKind \in {"issue", "review"}
    /\ comments \in CommentLists
    /\ currentRunId \in RunIds
    /\ botComments = <<>>
    /\ clIndex = 0
    /\ deleted = <<>>
    /\ clWarnings = <<>>

CleanIdle ==
    /\ clPc = "idle"
    /\ clKind = "issue"
    /\ comments = <<>>
    /\ currentRunId = 1
    /\ botComments = <<>>
    /\ clIndex = 0
    /\ deleted = <<>>
    /\ clWarnings = <<>>

\* listComments / listReviewComments throws: the outer catch warns.
ListCommentsThrows ==
    /\ clPc = "start"
    /\ clWarnings' = clWarnings \o <<"Failed to cleanup old comments">>
    /\ clPc' = "done"
    /\ UNCHANGED <<clKind, comments, currentRunId, botComments, clIndex, deleted>>
    /\ UNCHANGED cleanOthers

\* The listing resolves and is filtered.
ListComments ==
    /\ clPc = "start"
    /\ botComments' = FilterBot(comments, 1)
    /\ clIndex' = 1
    /\ clPc' = "loop"
    /\ UNCHANGED <<clKind, comments, currentRunId, deleted, clWarnings>>
    /\ UNCHANGED cleanOthers

\* The loop body for a comment of another run whose delete call resolves.
DeleteComment ==
    /\ clPc = "loop"
    /\ clIndex <= Len(botComments)
    /\ IsOldRun(comments[botComments[clIndex]], currentRunId)
    /\ deleted' = Append(deleted, botComments[clIndex])
    /\ clIndex' = clIndex + 1
    /\ UNCHANGED <<clPc, clKind, comments, currentRunId, botComments, clWarnings>>
    /\ UNCHANGED cleanOthers

\* The loop body for a comment of another run whose delete call throws.
DeleteCommentThrows ==
    /\ clPc = "loop"
    /\ clIndex <= Len(botComments)
    /\ IsOldRun(comments[botComments[clIndex]], currentRunId)
    /\ clWarnings' = clWarnings \o <<"Failed to delete comment">>
    /\ clIndex' = clIndex + 1
    /\ UNCHANGED <<clPc, clKind, comments, currentRunId, botComments, deleted>>
    /\ UNCHANGED cleanOthers

\* The loop body for a comment that names no run or the current one.
KeepComment ==
    /\ clPc = "loop"
    /\ clIndex <= Len(botComments)
    /\ ~IsOldRun(comments[botComments[clIndex]], currentRunId)
    /\ clIndex' = clIndex + 1
    /\ UNCHANGED <<clPc, clKind, comments, currentRunId, botComments, deleted,
                   clWarnings>>
    /\ UNCHANGED cleanOthers

\* The loop is over.
CleanupReturns ==
    /\ clPc = "loop"
    /\ clIndex > Len(botComments)
    /\ clPc' = "done"
    /\ UNCHANGED <<clKind, comments, currentRunId, botComments, clIndex, deleted,
                   clWarnings>>
    /\ UNCHANGED cleanOthers

CleanNext ==
    \/ ListCommentsThrows
    \/ ListComments
    \/ DeleteComment
    \/ DeleteCommentThrows
    \/ KeepComment
    \/ CleanupReturns

(***************************************************************************)
(* Specifications.                                                         *)
(***************************************************************************)
TruncNext == TruncateCall \/ TruncateAgain

TruncSpecInit ==
    TruncInit /\ ExtIdle /\ ClientIdle /\ RunIdle /\ ColIdle /\ FetchIdle
    /\ GitIdle /\ CleanIdle

SpecTruncate == TruncSpecInit /\ [][TruncNext]_vars

ExtSpecInit ==
    ExtInit /\ TruncIdle /\ ClientIdle /\ RunIdle /\ ColIdle /\ FetchIdle
    /\ GitIdle /\ CleanIdle

SpecExtract == ExtSpecInit /\ [][ExtNext]_vars

ClientSpecInit ==
    ClientInit /\ TruncIdle /\ ExtIdle /\ RunIdle /\ ColIdle /\ FetchIdle
    /\ GitIdle /\ CleanIdle

SpecClient == ClientSpecInit /\ [][ClientNext]_vars

RunSpecInit ==
    RunInit /\ ClientIdle /\ TruncIdle /\ ExtIdle /\ ColIdle /\ FetchIdle
    /\ GitIdle /\ CleanIdle

SpecRun == RunSpecInit /\ [][RunNext]_vars

ColSpecInit ==
    ColInit /\ TruncIdle /\ ExtIdle /\ ClientIdle /\ RunIdle /\ FetchIdle
    /\ GitIdle /\ CleanIdle

SpecCollect == ColSpecInit /\ [][ColNext]_vars

FetchSpecInit ==
    FetchInit /\ TruncIdle /\ ExtIdle /\ ClientIdle /\ RunIdle /\ ColIdle
    /\ GitIdle /\ CleanIdle

SpecFetch == FetchSpecInit /\ [][FetchNext]_vars

GitSpecInit ==
    GitInit /\ TruncIdle /\ ExtIdle /\ ClientIdle /\ RunIdle /\ ColIdle
    /\ FetchIdle /\ CleanIdle

SpecGit == GitSpecInit /\ [][GitNext]_vars

CleanSpecInit ==
    CleanInit /\ TruncIdle /\ ExtIdle /\ ClientIdle /\ RunIdle /\ ColIdle
    /\ FetchIdle /\ GitIdle

SpecCleanup == CleanSpecInit /\ [][CleanNext]_vars

(***************************************************************************)
(* Claims about truncate.                                                  *)
(***************************************************************************)
ByteLength(s) == Len(Utf8Encode(s))

IsSuffix(r, s) == Len(r) <= Len(s) /\ r = SubSeq(s, Len(s) - Len(r) + 1, Len(s))

WellFormed(s) == \A k \in 1..Len(s) : s[k] \in WellFormedChars

\* C1: truncate(s, b) has UTF-8 byte length <= b, and when s already fits in
\* b bytes the result is s itself and no truncation warning is logged.
C1_TruncateWithinBudget ==
    tPc # "call" =>
        /\ ByteLength(tOut) <= tMax
        /\ (ByteLength(tS) <= tMax => tOut = tS /\ tWarnings = 0)

\* A string that did not fit was cut to a non-empty text and the warning
\* was logged once.
C1_Witness ==
    /\ tPc = "once"
    /\ ByteLength(tS) > tMax
    /\ tOut # <<>>
    /\ tWarnings = 1

C3_TruncateIdempotent == tPc = "twice" => tOut2 = tOut

\* A second call on a result that was really cut.
C3_Witness == tPc = "twice" /\ tOut # tS /\ tOut # <<>>

(***************************************************************************)
(* Claims about extractRelevantLogs.                                       *)
(***************************************************************************)
NoRepeat(ls) == Cardinality({ls[k] : k \in 1..Len(ls)}) = Len(ls)

Range(ls) == {ls[k] : k \in 1..Len(ls)}

NoIndicator(ls) == \A k \in 1..Len(ls) : ~containsErrorIndicator(ls[k])

\* C4 as stated: on every return path, no line text occurs more than once in
\* the output of extractRelevantLogs.
C4_NoRepeatOnEveryPath == ePc = "done" => NoRepeat(Split(eResult))

\* C4 amended: whenever the scan selected at least one line, no line text
\* occurs more than once in the selection or in the output, and the seen-set
\* is exactly the set of selected texts; only the fallback (nothing
\* selected) returns input lines verbatim, repeats included.
C4_NoRepeatWhenSelected ==
    /\ NoRepeat(relevantLines)
    /\ seenLines = Range(relevantLines)
    /\ (ePc = "done" /\ relevantLines # <<>> =>
            /\ Split(eResult) = relevantLines
            /\ NoRepeat(Split(eResult)))

\* The same error line occurs at two places of the input, so it qualified
\* for selection twice, and the output was produced from the selection.
C4_Witness ==
    /\ ePc = "done"
    /\ relevantLines # <<>>
    /\ \E p, q \in 1..Len(lines) :
          p < q /\ lines[p] = lines[q] /\ containsErrorIndicator(lines[p])
    /\ \E p, q \in 1..Len(lines) :
          /\ p < q /\ lines[p] = lines[q]
          /\ ~containsErrorIndicator(lines[p]) /\ lines[p] \in seenLines

\* The last min(n, 100) lines of ls, in their order.
LastLines(ls) ==
    LET m == IF Len(ls) < FallbackLines THEN Len(ls) ELSE FallbackLines IN
    [k \in 1..m |-> ls[Len(ls) - m + k]]

\* C5: if no input line matches an error indicator the result is exactly the
\* last 100 input lines in their order (all of them when fewer), and the
\* fallback is taken only then.
C5_FallbackLastHundred ==
    ePc = "done" =>
        /\ (NoIndicator(lines) =>
                eResult = Join(LastLines(lines)) /\ Split(eResult) = LastLines(lines))
        /\ (relevantLines = <<>> <=> NoIndicator(lines))
        /\ (~NoIndicator(lines) => eResult = Join(relevantLines))

\* A log of more than 100 lines without any indicator was reduced to its
\* last 100 lines.
C5_Witness ==
    /\ ePc = "done"
    /\ NoIndicator(lines)
    /\ Len(lines) > FallbackLines
    /\ Len(Split(eResult)) = FallbackLines

(***************************************************************************)
(* Claims about the HTTP client.                                           *)
(***************************************************************************)
RetryableStatuses == {408, 429, 502, 503, 504}

\* The latest attempt failed retryably: a retryable status or a thrown fetch.
LastAttemptRetryable ==
    \/ lastFetch = "error"
    \/ lastFetch = "response" /\ response.status \in RetryableStatuses

\* The latest attempt got a failure status that is not retryable.
LastAttemptTerminal ==
    /\ lastFetch = "response"
    /\ ~Ok(response.status)
    /\ response.status \notin RetryableStatuses

\* C7: when an attempt ends, a retry is scheduled iff the attempt failed
\* retryably (status 408, 429, 502, 503 or 504, or fetch threw) and fewer
\* than maxRetries retries have been used; every scheduled retry is one
\* more fetch; so an OK response after k retryable failures is reached
\* with exactly k + 1 fetches, and its body is the result.
C7_RetryIffRetryable ==
    /\ [][(cPc = "fetch" /\ cPc' # "fetch") =>
            ((cPc' = "sleep") <=>
                (LastAttemptRetryable' /\ attempt < retryOptions.maxRetries))]_vars
    /\ [][(cPc = "sleep" /\ cPc' # "sleep") =>
            (cPc' = "fetch" /\ fetchCalls' = fetchCalls + 1)]_vars
    /\ []((cPc \in {"respond", "done"} /\ lastFetch = "response"
            /\ Ok(response.status)) =>
            /\ fetchCalls = retryableFailures + 1
            /\ retryableFailures <= retryOptions.maxRetries
            /\ (cPc = "done" /\ outcome.kind = "resolved" =>
                    outcome.value = response.body))

\* Two retryable failures, then a 200: three fetches, the 200 body returned.
C7_Witness ==
    /\ cPc = "done"
    /\ retryableFailures = 2 /\ sleepCalls = 2
    /\ fetchCalls = 3
    /\ response.status = 200
    /\ outcome.kind = "resolved"
    /\ outcome.value = "{root_cause:test}"

\* C8: a failure status that is not retryable is never followed by a wait
\* or a further fetch (as the first response: one fetch, no sleep), and
\* explainFailure rejects with an error that names the status and carries
\* the body text; for 413, and only for 413, it is the payload-too-large
\* error.
C8_TerminalStatusFailsAtOnce ==
    LastAttemptTerminal =>
        /\ cPc \in {"respond", "done"}
        /\ fetchCalls = attempt + 1
        /\ sleepCalls = attempt
        /\ cPc = "done" =>
            /\ outcome.kind = "rejected"
            /\ outcome.status = response.status
            /\ outcome.text = BodyText(response)
            /\ outcome.error =
                  (IF response.status = 413 THEN "Request payload too large"
                   ELSE "Service error")

\* A single 400: one fetch, no sleep, "Service error (400): Bad request".
C8_Witness ==
    /\ cPc = "done"
    /\ response.status = 400
    /\ fetchCalls = 1 /\ sleepCalls = 0
    /\ outcome = Rejected("Service error", 400, "Bad request")

\* Every attempt of the request failed retryably.
Exhausted ==
    /\ cPc = "done"
    /\ fetchCalls = retryOptions.maxRetries + 1
    /\ LastAttemptRetryable

\* C9 as stated: at most maxRetries + 1 fetches; when every attempt fails
\* retryably the request rejects with the last observed error.
C9_ExhaustionRaises ==
    /\ fetchCalls <= retryOptions.maxRetries + 1
    /\ Exhausted =>
        /\ outcome.kind = "rejected"
        /\ IF lastFetch = "error" THEN outcome.error = lastError
           ELSE outcome.status = response.status

\* C9: at most maxRetries + 1 fetches; when every attempt fails retryably
\* the request rejects with the last observed error (the thrown error, or
\* the service error of the last status), except that a last response of
\* 429 resolves with the rate-limited result.
C9_ExhaustionOutcome ==
    /\ fetchCalls <= retryOptions.maxRetries + 1
    /\ Exhausted =>
        IF lastFetch = "error"
        THEN outcome.kind = "rejected" /\ outcome.error = lastError
        ELSE IF response.status = 429
        THEN outcome.kind = "resolved" /\ outcome.rate_limited
        ELSE /\ outcome.kind = "rejected"
             /\ outcome.error = "Service error"
             /\ outcome.status = response.status

\* Four 429 answers: four fetches, three sleeps, and a rate-limited result.
C9_Witness ==
    /\ Exhausted
    /\ fetchCalls = 4 /\ sleepCalls = 3
    /\ lastFetch = "response" /\ response.status = 429
    /\ outcome.kind = "resolved" /\ outcome.rate_limited

\* C10: the wait that follows a retryable response carrying a retry-after
\* header with an integer value n is exactly n * 1000 ms.
C10_RetryAfterExact ==
    (cPc = "sleep" /\ lastFetch = "response"
        /\ response.retryAfter \in {"0", "2", "15"}) =>
        delayMs = (CASE response.retryAfter = "0" -> 0
                     [] response.retryAfter = "2" -> 2000
                     [] response.retryAfter = "15" -> 15000)

\* A 429 with retry-after: 15 waits 15 s, beyond maxDelayMs.
C10_Witness ==
    /\ cPc = "sleep" /\ lastFetch = "response"
    /\ response.status = 429
    /\ response.retryAfter = "15"
    /\ delayMs = 15000
    /\ delayMs > retryOptions.maxDelayMs

(***************************************************************************)
(* Claims about the pipeline.                                              *)
(***************************************************************************)
\* run() has got past validatePayloadSize.
PastValidation == rPc \in {"analyze", "awaiting", "post", "done"} /\ validateCalls > 0

\* C6: no analyzer request is issued before validatePayloadSize has been
\* evaluated on the payload; a payload of more bytes than the ceiling
\* makes it throw, leaves the payload as it was and the run issues no
\* analyzer request and no fetch; a payload of at most the ceiling,
\* the ceiling included, is accepted.
C6_ValidateBeforeAnalyze ==
    /\ analyzerRequests > 0 =>
          validateCalls = 1 /\ payload.bytes <= 512 * 1024
    /\ PastValidation /\ payload.bytes > 512 * 1024 =>
          /\ rPc = "done"
          /\ analyzerRequests = 0 /\ fetchCalls = 0 /\ cPc = "idle"
          /\ payload \in SerializedPayloads
          /\ setFailedCalls = <<"Request payload too large: bytes over max">>
    /\ PastValidation /\ payload.bytes <= 512 * 1024 =>
          /\ \A k \in 1..Len(setFailedCalls) :
                setFailedCalls[k] # "Request payload too large: bytes over max"
          /\ rPc = "done" => analyzerRequests = 1

\* A payload of fewer code units than the ceiling but more bytes is
\* rejected and the run ends without a request.
C6_Witness ==
    /\ rPc = "done"
    /\ payload.length < 512 * 1024 /\ payload.bytes > 512 * 1024
    /\ analyzerRequests = 0
    /\ setFailedCalls # <<>>

\* C11: the wait that follows a retryable failure without a retry-after
\* header, or a thrown fetch, before retry number k is
\* min(initialDelayMs * 2^k, maxDelayMs) plus a jitter in [0, 1000) ms,
\* hence below maxDelayMs + 1000 ms.
C11_BackoffDoublesToCap ==
    (cPc = "sleep" /\ (lastFetch = "error" \/ response.retryAfter = "")) =>
        LET doubled == retryOptions.initialDelayMs * 2^attempt
            base == IF doubled < retryOptions.maxDelayMs THEN doubled
                    ELSE retryOptions.maxDelayMs
        IN /\ delayMs - base \in 0..999
           /\ delayMs < retryOptions.maxDelayMs + 1000

\* The third wait of options whose doubling passes the cap: the cap plus
\* the largest jitter.
C11_Witness ==
    /\ cPc = "sleep" /\ lastFetch = "response" /\ response.retryAfter = ""
    /\ attempt = 2
    /\ retryOptions.initialDelayMs * 4 > retryOptions.maxDelayMs
    /\ delayMs = retryOptions.maxDelayMs + 999

\* C12: once the 60 s timer has fired and the attempt in flight has been
\* aborted, the retry loop is over: no backoff wait and no further fetch
\* follows the abort error, and explainFailure rejects with it.
C12_TimerEndsLoop ==
    /\ lastError = "AbortError" => cPc = "done"
    /\ aborted /\ cPc = "done" =>
          outcome.kind = "rejected" /\ outcome.error = "AbortError"

\* C13: when the final response has status 429 explainFailure resolves
\* with rate_limited = true; limit, remaining and reset_at are those of the
\* JSON body, and a body that is not JSON gives its raw text as message.
C13_RateLimitShape ==
    (cPc = "done" /\ lastFetch = "response" /\ response.status = 429) =>
        /\ outcome.kind = "resolved"
        /\ outcome.rate_limited
        /\ response.body = "{limit:35,remaining:0,reset_at:R}" =>
              /\ outcome.limit = 35 /\ outcome.remaining = 0
              /\ outcome.reset_at = "R"
              /\ outcome.text = ""
        /\ response.body = "{error:quota}" =>
              /\ outcome.limit = Undefined /\ outcome.remaining = Undefined
              /\ outcome.reset_at = "undefined"
              /\ outcome.text = ""
        /\ response.body = "Bad request" => outcome.text = "Bad request"
        /\ response.body = "unreadable" => outcome.text = ""

\* Retries that end on a 429 with the quota in its body.
C13_Witness ==
    /\ cPc = "done" /\ fetchCalls = 4
    /\ response.status = 429
    /\ response.body = "{limit:35,remaining:0,reset_at:R}"
    /\ outcome.rate_limited /\ outcome.limit = 35 /\ outcome.remaining = 0

\* The analyzer answered 200 with skipped: true.
SkippedAnswer ==
    \/ ~useMultiJob /\ cPc = "done" /\ lastFetch = "response"
          /\ response.status = 200
          /\ response.body = "{skipped:true,reason:Low confidence}"
    \/ useMultiJob /\ result.skipped

\* C14: a run whose analyzer answered 200 with skipped: true ends without
\* a core.setFailed call and with the skip reported as a summary.
C14_SkipIsNotFailure ==
    (rPc = "done" /\ SkippedAnswer) =>
        setFailedCalls = <<>> /\ summaries = <<"skipped">>

\* C15: whenever the final 200 response has skipped = true in its body,
\* explainFailure rejects with the 'Analysis skipped' error and hands no
\* result to the caller.
C15_SkippedRejects ==
    (cPc = "done" /\ lastFetch = "response" /\ response.status = 200
        /\ response.body = "{skipped:true,reason:Low confidence}") =>
        /\ outcome.kind = "rejected"
        /\ outcome.error = "Analysis skipped by service"
        /\ outcome.value = ""

\* A first answer of 200 with skipped: true, rejected.
C15_Witness ==
    /\ cPc = "done" /\ fetchCalls = 1
    /\ response.status = 200
    /\ response.body = "{skipped:true,reason:Low confidence}"
    /\ outcome.kind = "rejected"
    /\ outcome.error = "Analysis skipped by service"

(***************************************************************************)
(* Claims about the multi-job collection.                                  *)
(***************************************************************************)
\* The ids of the failed jobs whose download threw.
ThrownJobs ==
    {colWarnings[k].jobId : k \in
        {j \in 1..Len(colWarnings) :
            colWarnings[j].kind = "Failed to download logs for job"}}

\* The job ids of the sections of the result, in order.
ResultJobs == [k \in 1..Len(combinedLogs) |-> combinedLogs[k].jobId]

RECURSIVE Without(_, _)
Without(ids, drop) ==
    IF ids = <<>> THEN <<>>
    ELSE (IF Head(ids) \in drop THEN <<>> ELSE <<Head(ids)>>)
         \o Without(Tail(ids), drop)

\* C16: a download that throws is caught and logged, never rejects the
\* collection, and its job has no entry in the result: the result has
\* exactly the excerpts of the jobs whose download succeeded.
C16_FailedDownloadExcluded ==
    /\ colPc = "rejected" => task = <<>>
    /\ colPc = "done" /\ colFailedJobs # <<>> =>
          /\ ResultJobs = Without(colFailedJobs, ThrownJobs)
          /\ \A k \in 1..Len(combinedLogs) : combinedLogs[k].logs = "excerpt"

\* C17: whatever the order in which the downloads end, the sections of
\* the result are those of the failed jobs in the order of the listing.
C17_ResultKeepsListingOrder ==
    (colPc = "done" /\ colFailedJobs # <<>>) =>
        /\ ResultJobs = colFailedJobs
        /\ \A a, b \in 1..Len(combinedLogs) :
              a < b => combinedLogs[a].jobId < combinedLogs[b].jobId

\* Three failed jobs whose downloads ended last job first.
C17_Witness ==
    /\ colPc = "done"
    /\ completionOrder = <<3, 1, 2>>
    /\ ResultJobs = <<1, 2, 3>>

(***************************************************************************)
(* Claims about the pipeline in multi-job mode.                            *)
(***************************************************************************)
\* The multi-job collector has returned an empty list.
CollectedNothing ==
    useMultiJob /\ failedJobs = 0 /\ rPc \notin {"idle", "start", "collect"}

\* C18: when the multi-job collector returns an empty list run() ends at
\* once: validatePayloadSize is not called, no payload is assembled or
\* sent, no summary is posted and core.setFailed is not called.
C18_EmptyListEndsRun ==
    CollectedNothing =>
        /\ rPc = "done"
        /\ validateCalls = 0
        /\ analyzerRequests = 0 /\ fetchCalls = 0
        /\ payload = NoPayload
        /\ setFailedCalls = <<>>

\* A run that ended on the empty list, with its warning.
C18_Witness ==
    /\ CollectedNothing
    /\ rPc = "done"
    /\ runWarnings = <<"No failed jobs found to analyze">>
    /\ setFailedCalls = <<>>

(***************************************************************************)
(* Claims about fetchJobLogsBestEffort.                                    *)
(***************************************************************************)
\* Some listed job has exactly the current job's name.
ExactlyNamed == \E k \in 1..Len(jobList) : jobList[k] = "build"

\* C19: fetchJobLogsBestEffort does not reject because of the host API:
\* a listing or a download that throws makes it resolve with the failure
\* message (passed through truncate, so the message itself whenever it
\* fits the budget); a listing without a job of exactly the current
\* job's name makes it resolve with the placeholder, and no download is
\* requested.
C19_BestEffortNeverRejects ==
    /\ fPc = "rejected" => logPathExists /\ listCalls = 0 /\ downloadCalls = 0
    /\ downloadCalls > 0 => ExactlyNamed /\ jobList[currentJob] = "build"
    /\ fPc = "done" /\ ~logPathExists =>
          /\ fetchWarnings = <<"Failed to fetch logs from GitHub API">> =>
                /\ fetchedLogs = truncate(<<70, 102>>, maxLogBytes)
                /\ maxLogBytes >= 2 => fetchedLogs = <<70, 102>>
          /\ fetchWarnings = <<"Failed to download logs for job">> =>
                /\ fetchedLogs = truncate(<<70, 100>>, maxLogBytes)
                /\ maxLogBytes >= 2 => fetchedLogs = <<70, 100>>
          /\ (hasToken /\ ~ExactlyNamed /\ fetchWarnings = <<"Could not find current job">>) =>
                /\ downloadCalls = 0
                /\ fetchedLogs = truncate(<<67, 110>>, maxLogBytes)
                /\ maxLogBytes >= 2 => fetchedLogs = <<67, 110>>

\* A listing whose only job differs from the current job's name in case:
\* the placeholder, and no download.
C19_Witness ==
    /\ fPc = "done" /\ ~logPathExists /\ hasToken
    /\ jobList = <<"Build">>
    /\ listCalls = 1 /\ downloadCalls = 0
    /\ fetchedLogs = <<67, 110>>

\* The raw log came from the override file or from a download that
\* resolved.
GotRawLog ==
    /\ fPc = "done"
    /\ \/ logPathExists
       \/ downloadCalls = 1 /\ fetchWarnings = <<>>

\* C20: whether the raw log was read from the override file or downloaded,
\* the returned text is truncate(extractRelevantLogs(raw), budget).
C20_ExtractThenTruncate ==
    GotRawLog =>
        fetchedLogs = truncate(extractRelevantLogs(rawLog), maxLogBytes)

(***************************************************************************)
(* Claims about the git context.                                           *)
(***************************************************************************)
\* C21: getGitContext asks the host API only after the local attempt has
\* returned null; when both attempts return null the context it returns has
\* no modified files, an empty diff, empty commit messages and the three
\* heuristics false; it always settles by returning a context.
C21_LocalFirstThenApi ==
    /\ gPc \in {"start", "api", "done"}
    /\ gPc = "api" => localResult = "null"
    /\ apiResult # "none" => localResult = "null"
    /\ (gPc = "done" /\ localResult = "context") => apiResult = "none"
    /\ gPc = "done" => localResult # "none"
    /\ (gPc = "done" /\ localResult = "null") => apiResult # "none"
    /\ (gPc = "done" /\ localResult = "null" /\ apiResult = "null") =>
        /\ gitContext.modified_files = <<>>
        /\ gitContext.diff = <<>>
        /\ gitContext.commit_messages = <<>>
        /\ ~gitContext.only_tests_changed
        /\ ~gitContext.dependencies_changed
        /\ ~gitContext.ci_config_changed

C21_Witness ==
    /\ gPc = "done"
    /\ localResult = "null"
    /\ apiResult = "null"
    /\ gitContext.modified_files = <<>>
    /\ Len(gitWarnings) = 2

\* C22: the diff and the commit messages of the returned context are never
\* longer than MAX_DIFF_CHARS and MAX_COMMIT_MSG_CHARS characters, and a
\* value over its budget is cut and ends with the truncation marker.
C22_FieldsWithinBudget ==
    (gPc = "done" /\ "context" \in {localResult, apiResult}) =>
        /\ TextLength(gitContext.diff) <= MAX_DIFF_CHARS
        /\ TextLength(gitContext.commit_messages) <= MAX_COMMIT_MSG_CHARS
        /\ TextLength(rawDiff) > MAX_DIFF_CHARS =>
            gitContext.diff = SliceTo(rawDiff, MAX_DIFF_CHARS) \o TruncatedMarker
        /\ TextLength(rawMessages) > MAX_COMMIT_MSG_CHARS =>
            gitContext.commit_messages =
                SliceTo(rawMessages, MAX_COMMIT_MSG_CHARS) \o TruncatedMarker

(***************************************************************************)
(* Claims about the cleanup of old comments.                               *)
(***************************************************************************)
\* The run a comment of the action belongs to: the run id of its footer, the
\* last "Run #<id>" of its body.
FooterRunId(comment) ==
    IF comment.mentions = <<>> THEN Null
    ELSE comment.mentions[Len(comment.mentions)]

\* C23: every deleted comment was written by a Bot, carries the WhyDidItFail
\* marker and names a run other than the current one; no comment of a user,
\* no Bot comment without the marker and no comment of the current run is
\* ever deleted.
C23_DeletesOnlyOldRuns ==
    \A k \in 1..Len(deleted) :
        /\ comments[deleted[k]].type = "Bot"
        /\ comments[deleted[k]].marker
        /\ FooterRunId(comments[deleted[k]]) # Null
        /\ FooterRunId(comments[deleted[k]]) # currentRunId

(***************************************************************************)
(* Claims about the limits and the fatal conditions of run().              *)
(***************************************************************************)
\* The request was over MAX_REQUEST_BYTES when validatePayloadSize saw it.
RequestLimitHit == validateCalls > 0 /\ PayloadTooLarge(payload)

\* The 60 s timer of explainFailure fired.
ResponseTimeHit == aborted

\* The analyzer answered the last attempt with 429.
QuotaHit == cPc = "done" /\ lastFetch = "response" /\ response.status = 429

\* C24: a run that hit a built-in limit (quota or rate limit, request size,
\* 60 s response time) ends without any core.setFailed call.
C24_LimitsNeverFail ==
    (rPc = "done" /\ (QuotaHit \/ RequestLimitHit \/ ResponseTimeHit)) =>
        setFailedCalls = <<>>

\* explainFailure or analyzeWithPolling rejected, or validatePayloadSize threw.
AnalyzerRejected == cPc = "done" /\ outcome.kind = "rejected"

Scanning == ePc = "scan" /\ i < Len(lines)

\* The text is among the selected lines once the step is taken.
SelectedNext(line) ==
    \E n \in 1..Len(relevantLines') : relevantLines'[n] = line

\* The text is among the selected lines.
Selected(line) == \E n \in 1..Len(relevantLines) : relevantLines[n] = line

\* C26: when line i matches an error indicator while the scan is not
\* inFailedStep, the selection contains the 10 lines before line i, line i
\* and the 30 lines after line i, clipped to the log.
C26_LocalWindowThirtyAfter ==
    [][(/\ Scanning
        /\ ~inFailedStep
        /\ ~isStepBoundary(lines[i + 1])
        /\ containsErrorIndicator(lines[i + 1])) =>
            \A j \in Max(0, i - 10)..Min(Len(lines) - 1, i + 30) :
                SelectedNext(lines[j + 1])]_vars

\* C27: a line that is a step boundary and matches an error indicator puts
\* the scan in inFailedStep, and the selection then contains that line and
\* each of the up to 10 lines before it.
C27_FailedBoundaryEntersStep ==
    [][(/\ Scanning
        /\ isStepBoundary(lines[i + 1])
        /\ containsErrorIndicator(lines[i + 1])) =>
            /\ inFailedStep'
            /\ \A j \in Max(0, i - 10)..i : SelectedNext(lines[j + 1])]_vars

C27_Witness ==
    /\ ePc = "scan"
    /\ i > 11
    /\ isStepBoundary(lines[i]) /\ containsErrorIndicator(lines[i])
    /\ inFailedStep
    /\ \A j \in (i - 10)..i : Selected(lines[j])
    /\ ~Selected(lines[i - 11])

\* C28 as stated: every line scanned while inFailedStep is selected, an
\* error-indicator line scanned while inFailedStep sets errorContext to 30
\* (29 once the countdown of the same iteration has run), and errorContext
\* is within 0..30 in every state.
C28_EveryLineInStepResets ==
    [][/\ errorContext' \in 0..ErrorContextLines
       /\ (Scanning /\ inFailedStep) =>
            /\ SelectedNext(lines[i + 1])
            /\ containsErrorIndicator(lines[i + 1]) =>
                  errorContext' = ErrorContextLines - 1]_vars

\* C28 amended: every line scanned while inFailedStep is selected, except a
\* step boundary without error indicator reached while errorContext > 0,
\* which ends the step; an error-indicator line that is not a step boundary
\* sets errorContext to 30 whatever its value was (29 once the countdown of
\* the same iteration has run); a step boundary with an error indicator
\* leaves errorContext as it is, or at 0 when it ended the step; errorContext
\* is within 0..30 in every state.
C28_InStepBranchResets ==
    [][/\ errorContext' \in 0..ErrorContextLines
       /\ (/\ Scanning /\ inFailedStep
           /\ ~(/\ isStepBoundary(lines[i + 1])
                /\ ~containsErrorIndicator(lines[i + 1])
                /\ errorContext > 0)) =>
            SelectedNext(lines[i + 1])
       /\ (/\ Scanning /\ inFailedStep
           /\ ~isStepBoundary(lines[i + 1])
           /\ containsErrorIndicator(lines[i + 1])) =>
            errorContext' = ErrorContextLines - 1
       /\ (/\ Scanning /\ inFailedStep
           /\ isStepBoundary(lines[i + 1])
           /\ containsErrorIndicator(lines[i + 1])) =>
            /\ errorContext' = 0
            /\ inFailedStep']_vars

C28_Witness ==
    /\ ePc = "scan"
    /\ i >= 3
    /\ lines[i - 2] = FailedBoundaryLine
    /\ lines[i - 1] = ErrorLine
    /\ lines[i] = ErrorLine
    /\ inFailedStep
    /\ errorContext = ErrorContextLines - 1
    /\ Selected(lines[i])

\* C29: every line that matches an error indicator is selected as soon as
\* it has been scanned, whatever the scan mode was, and when the log has
\* such a line the result is the selection.
C29_ErrorLinesSelected ==
    /\ ePc \in {"scan", "done"} =>
          \A k \in 1..i : containsErrorIndicator(lines[k]) => Selected(lines[k])
    /\ (ePc = "done"
        /\ \E k \in 1..Len(lines) : containsErrorIndicator(lines[k])) =>
          /\ i = Len(lines)
          /\ eResult = Join(relevantLines)

C29_Witness ==
    /\ ePc = "done"
    /\ \E a \in 1..Len(lines), b \in 1..Len(lines), c \in 1..Len(lines) :
          /\ a < b /\ b < c
          /\ lines[a] = ErrorLine
          /\ lines[b] = FailedBoundaryLine
          /\ lines[c] = ErrorLine
          /\ Selected(lines[a]) /\ Selected(lines[b]) /\ Selected(lines[c])
    /\ eResult = Join(relevantLines)

\* The scan state reached before line k (0-based) of the log is read.
ScanBefore(k) == ScanFrom(ScanInit, SubSeq(lines, 1, k), 0)

\* C30 as stated: the scan leaves inFailedStep only at a step boundary
\* reached while errorContext > 0, and after a step boundary reached in
\* inFailedStep with errorContext = 0 every following line, up to the end of
\* the log, is selected.
C30_StaysToTheEndOfTheLog ==
    ePc = "done" =>
        \A k \in 0..(Len(lines) - 1) :
            /\ (ScanBefore(k).inFailedStep /\ ~ScanBefore(k + 1).inFailedStep) =>
                  isStepBoundary(lines[k + 1]) /\ ScanBefore(k).errorContext > 0
            /\ (/\ ScanBefore(k).inFailedStep
                /\ ScanBefore(k).errorContext = 0
                /\ isStepBoundary(lines[k + 1])) =>
                  \A j \in (k + 1)..Len(lines) : Selected(lines[j])

\* C30 amended: the scan leaves inFailedStep only at a step boundary reached
\* while errorContext > 0, and errorContext becomes positive only at an
\* error-indicator line inside the step; at a step boundary reached with
\* errorContext = 0 the scan stays in inFailedStep and selects the line, and
\* every line after which the scan is still in inFailedStep is selected: up
\* to the end of the log unless a later error-indicator line inside the
\* step arms the countdown and a boundary follows before it runs out.
C30_LeavesOnlyAtArmedBoundary ==
    [][(Scanning /\ inFailedStep) =>
          /\ ~inFailedStep' =>
                /\ isStepBoundary(lines[i + 1])
                /\ ~containsErrorIndicator(lines[i + 1])
                /\ errorContext > 0
          /\ (isStepBoundary(lines[i + 1]) /\ errorContext = 0) =>
                inFailedStep' /\ SelectedNext(lines[i + 1])
          /\ inFailedStep' => SelectedNext(lines[i + 1])
          /\ (errorContext = 0 /\ errorContext' > 0) =>
                /\ containsErrorIndicator(lines[i + 1])
                /\ ~isStepBoundary(lines[i + 1])]_vars

C30_Witness ==
    /\ ePc = "scan"
    /\ i >= 2
    /\ isStepBoundary(lines[i]) /\ ~containsErrorIndicator(lines[i])
    /\ inFailedStep
    /\ errorContext = 0
    /\ Selected(lines[i])

====
